---- MODULE Spec2Model ----
(***************************************************************************)
(* Model of the Figma analysis core of modus-docs:                         *)
(*   scripts/src/figma_data_filter.py      (FigmaDataFilter)               *)
(*   scripts/src/layout_reconstruction.py  (LayoutReconstructor, summaries)*)
(*   scripts/src/modus_component_mapper.py (ModusComponentMapper)          *)
(*   scripts/src/universal_figma_analyzer.py                               *)
(*                    (UniversalFigmaAnalyzer.analyze_with_layout_...)     *)
(*                                                                         *)
(* Python values are modelled as follows.                                  *)
(*   dict      a function with a domain of strings (a record); {} is <<>>  *)
(*   list      a sequence                                                  *)
(*   str       a string; characters are reached with SubSeq                *)
(*   int       an integer; a float in [0,1] (opacity, colour channel) is   *)
(*             an integer number of hundredths                             *)
(*   None      for an Optional result: the empty sequence, a value v being *)
(*             <<v>>                                                       *)
(*   a value that is not a dict where a node is expected (None, a list, a  *)
(*             string, a number): [pytype |-> .., truthy |-> ..]           *)
(*   a large opaque composite: [blob |-> "dict" | "list", strlen |-> n],   *)
(*             n = len(str(value))                                         *)
(***************************************************************************)
EXTENDS Integers, Sequences, FiniteSets, TLC

(***************************************************************************)
(* Generic helpers for dicts, lists and strings                            *)
(***************************************************************************)
EmptyDict == <<>>

Has(d, k) == k \in DOMAIN d

Get(d, k, default) == IF k \in DOMAIN d THEN d[k] ELSE default

IsDict(v) == ~("pytype" \in DOMAIN v)

Truthy(v) == IF "pytype" \in DOMAIN v THEN v.truthy ELSE DOMAIN v # {}

Range(s) == {s[i] : i \in 1..Len(s)}

Max2(a, b) == IF a >= b THEN a ELSE b

Abs(a) == IF a >= 0 THEN a ELSE 0 - a

RECURSIVE SumSeq(_)
SumSeq(s) == IF s = <<>> THEN 0 ELSE Head(s) + SumSeq(Tail(s))

RECURSIVE MaxSeq(_)
MaxSeq(s) == IF s = <<>> THEN 0 ELSE Max2(Head(s), MaxSeq(Tail(s)))

RECURSIVE Flatten(_)
Flatten(ss) == IF ss = <<>> THEN <<>> ELSE Head(ss) \o Flatten(Tail(ss))

RECURSIVE SetToSeq(_)
SetToSeq(S) == IF S = {} THEN <<>>
               ELSE LET e == CHOOSE x \in S : TRUE IN <<e>> \o SetToSeq(S \ {e})

\* the elements of s that satisfy Test, in order (a list comprehension with if)
SelectIdx(s, keep) == SelectSeq([i \in 1..Len(s) |-> i], LAMBDA i : i \in keep)

\* 'p in s' for strings
Contains(s, p) == \E i \in 1..(Len(s) - Len(p) + 1) : SubSeq(s, i, i + Len(p) - 1) = p

ContainsAny(s, ps) == \E p \in ps : Contains(s, p)

UpperChars ==
  {"A", "B", "C", "D", "E", "F", "G", "H", "I", "J", "K", "L", "M",
   "N", "O", "P", "Q", "R", "S", "T", "U", "V", "W", "X", "Y", "Z"}

LowerChars ==
  {"a", "b", "c", "d", "e", "f", "g", "h", "i", "j", "k", "l", "m",
   "n", "o", "p", "q", "r", "s", "t", "u", "v", "w", "x", "y", "z"}

DigitChars == {"0", "1", "2", "3", "4", "5", "6", "7", "8", "9"}

\* the lower-case letter of each upper-case letter
LowerOf ==
  [A |-> "a", B |-> "b", C |-> "c", D |-> "d", E |-> "e", F |-> "f", G |-> "g",
   H |-> "h", I |-> "i", J |-> "j", K |-> "k", L |-> "l", M |-> "m", N |-> "n",
   O |-> "o", P |-> "p", Q |-> "q", R |-> "r", S |-> "s", T |-> "t", U |-> "u",
   V |-> "v", W |-> "w", X |-> "x", Y |-> "y", Z |-> "z"]

LowerChar(c) == IF c \in UpperChars THEN LowerOf[c] ELSE c

\* str.lower()
RECURSIVE Lower(_)
Lower(s) == IF Len(s) = 0 THEN s
            ELSE LowerChar(SubSeq(s, 1, 1)) \o Lower(SubSeq(s, 2, Len(s)))

\* \w and \s of the re module, for the characters the model uses
WordChars == UpperChars \cup LowerChars \cup DigitChars \cup {"_"}

IsWordChar(c) == c \in WordChars

IsSpaceChar(c) == c = " "

(***************************************************************************)
(* figma_data_filter.py : FigmaDataFilter                                  *)
(***************************************************************************)
essential_properties ==
  {"id", "name", "type", "visible", "children", "absoluteBoundingBox",
   "layoutMode", "layoutAlign", "itemSpacing", "constraints",
   "componentId", "mainComponent", "characters", "style", "opacity",
   "clipsContent", "locked", "isMask",
   "primaryAxisAlignItems", "counterAxisAlignItems", "primaryAxisSizingMode",
   "counterAxisSizingMode", "layoutWrap", "layoutGrow", "layoutPositioning",
   "layoutGrids", "gridStyleId",
   "inferredAutoLayout", "numberOfFixedChildren", "overflowDirection",
   "componentPropertyDefinitions", "variantProperties"}

remove_properties ==
  {"styles", "effects", "exportSettings",
   "transitionNodeID", "transitionDuration", "transitionEasing",
   "overflowDirection", "numberOfFixedChildren",
   "overlayPositionType", "overlayBackgroundInteraction",
   "preserveRatio", "reactions", "playbackSettings",
   "individualStrokeWeights", "strokeDashes", "relativeTransform", "size",
   "counterAxisSizingMode", "primaryAxisSizingMode",
   "paddingLeft", "paddingRight", "paddingTop", "paddingBottom",
   "gridStyleId", "backgroundStyleId", "fillStyleId", "strokeStyleId",
   "textAutoResize", "layoutVersion", "componentPropertyDefinitions",
   "componentProperties", "overrides", "prototypeDevice", "flowStartingPoints"}

simplify_properties == {"fills", "strokes", "constraints", "style", "layoutGrids", "blendMode"}

vector_types == {"VECTOR", "LINE", "REGULAR_POLYGON", "ELLIPSE", "STAR", "BOOLEAN_OPERATION"}

vector_properties == {"vectorPaths", "vectorNetwork", "fillGeometry", "strokeGeometry"}

\* max_depth = None
NoDepth == 0 - 1

\* int(c * 255) for a colour channel c given in hundredths
Channel255(c) == (c * 255) \div 100

\* f"{opacity:.2f}" for an opacity given in hundredths
Fmt2f(o) == ToString(o \div 100) \o "." \o ToString((o % 100) \div 10) \o ToString(o % 10)

RgbOf(color) ==
  ToString(Channel255(Get(color, "r", 0))) \o "," \o
  ToString(Channel255(Get(color, "g", 0))) \o "," \o
  ToString(Channel255(Get(color, "b", 0)))

_simplify_fills(fills) ==
  IF fills = <<>> THEN <<>>
  ELSE LET solid == SelectIdx(fills, {i \in 1..Len(fills) : Get(fills[i], "visible", TRUE)
                                                /\ Get(fills[i], "type", "") = "SOLID"})
           grads == SelectIdx(fills, {i \in 1..Len(fills) : Get(fills[i], "type", "")
                                                \in {"GRADIENT_LINEAR", "GRADIENT_RADIAL"}})
       IN IF solid # <<>>
          THEN LET fill == fills[solid[1]]
                   opacity == Get(fill, "opacity", 100)
               IN IF opacity < 100
                  THEN << "rgba(" \o RgbOf(Get(fill, "color", EmptyDict)) \o "," \o Fmt2f(opacity) \o ")" >>
                  ELSE << "rgb(" \o RgbOf(Get(fill, "color", EmptyDict)) \o ")" >>
          ELSE IF grads # <<>> THEN << "gradient:" \o fills[grads[1]].type >>
          ELSE <<>>

_simplify_strokes(strokes) ==
  IF strokes = <<>> THEN <<>>
  ELSE LET vis == SelectIdx(strokes, {i \in 1..Len(strokes) : Get(strokes[i], "visible", TRUE)})
       IN IF vis # <<>>
          THEN LET stroke == strokes[vis[1]]
               IN << [color |-> "rgb(" \o RgbOf(Get(stroke, "color", EmptyDict)) \o ")",
                      weight |-> Get(stroke, "weight", 1)] >>
          ELSE <<>>

_simplify_constraints(constraints) ==
  << [h |-> Get(constraints, "horizontal", "LEFT"),
      v |-> Get(constraints, "vertical", "TOP")] >>

StyleKeyMap == [fontSize |-> "size", fontFamily |-> "font",
                fontWeight |-> "weight", textAlignHorizontal |-> "align"]

_simplify_text_style(style) ==
  LET src == DOMAIN style \cap DOMAIN StyleKeyMap
      out == {StyleKeyMap[k] : k \in src}
  IN << [o \in out |-> style[CHOOSE k \in src : StyleKeyMap[k] = o]] >>

RECURSIVE JoinComma(_)
JoinComma(ss) == IF Len(ss) = 0 THEN ""
                 ELSE IF Len(ss) = 1 THEN ss[1]
                 ELSE ss[1] \o "," \o JoinComma(Tail(ss))

_simplify_grids(grids) ==
  IF grids = <<>> THEN <<>>
  ELSE LET vis == SelectIdx(grids, {i \in 1..Len(grids) : Get(grids[i], "visible", TRUE)})
           grid_types == [j \in 1..Len(vis) |-> Get(grids[vis[j]], "pattern", "GRID")]
       IN IF grid_types # <<>> THEN << JoinComma(grid_types) >> ELSE <<>>

_simplify_blend_mode(blend_mode) ==
  IF blend_mode # "" /\ blend_mode # "PASS_THROUGH" /\ blend_mode # "NORMAL"
  THEN << blend_mode >> ELSE <<>>

\* self.simplify_properties[key](value)
Simplify(key, value) ==
  CASE key = "fills" -> _simplify_fills(value)
    [] key = "strokes" -> _simplify_strokes(value)
    [] key = "constraints" -> _simplify_constraints(value)
    [] key = "style" -> _simplify_text_style(value)
    [] key = "layoutGrids" -> _simplify_grids(value)
    [] key = "blendMode" -> _simplify_blend_mode(value)

\* the attributes of the model that are neither denylisted, simplifiable nor
\* essential, with the Python type of their value
OtherPrimitiveKeys == {"cornerRadius", "rotation", "scrollBehavior"}

\* the branch "For other properties, apply smart filtering" (lines 170-179)
SmartKeep(key, value) ==
  IF key \in OtherPrimitiveKeys THEN TRUE
  ELSE IF value.blob = "dict" /\ value.strlen > 200 THEN FALSE
  ELSE IF value.blob = "list" /\ value.strlen > 500 THEN FALSE
  ELSE value.strlen < 100

_is_grid_layout(children) ==
  IF Len(children) < 4 THEN FALSE
  ELSE LET pos == SelectIdx(children, {i \in 1..Len(children) : IsDict(children[i])
                                                 /\ Has(children[i], "absoluteBoundingBox")})
           xs == {Get(children[i].absoluteBoundingBox, "x", 0) : i \in Range(pos)}
           ys == {Get(children[i].absoluteBoundingBox, "y", 0) : i \in Range(pos)}
       IN IF Len(pos) < 4 THEN FALSE
          ELSE Cardinality(xs) >= 2 /\ Cardinality(ys) >= 2

\* the keys _add_layout_hints adds to the filtered node, with their values
_add_layout_hints(original) ==
  LET node_type == Get(original, "type", "")
      name == Lower(Get(original, "name", ""))
      hint == IF ContainsAny(name, {"header", "nav", "toolbar"}) THEN << "navigation" >>
              ELSE IF ContainsAny(name, {"button", "btn", "cta"}) THEN << "interactive" >>
              ELSE IF ContainsAny(name, {"card", "tile", "panel"}) THEN << "container" >>
              ELSE IF ContainsAny(name, {"input", "field", "form"}) THEN << "form_element" >>
              ELSE <<>>
      lay == IF Get(original, "layoutMode", "") = "HORIZONTAL" THEN << "row" >>
             ELSE IF Get(original, "layoutMode", "") = "VERTICAL" THEN << "column" >>
             ELSE IF node_type = "FRAME" /\ Get(original, "children", <<>>) # <<>>
                     /\ Len(original.children) > 2 /\ _is_grid_layout(original.children)
                  THEN << "grid" >>
             ELSE <<>>
  IN [h |-> hint, l |-> lay]

\* the essential branch tried before the denylist: a key on both lists is kept
is_removed_unless_essential(key) ==
  key \in remove_properties /\ key \notin essential_properties

\* the check that opens the loop body (line 136): a denylisted key is skipped
\* before any other branch is tried
is_removed(key) == key \in remove_properties

\* the test on a child without the visibility check
child_passes_unseen(child) == IsDict(child)

\* the two tests on a child (lines 147 and 151): a mapping, not marked invisible
child_passes(child) == IsDict(child) /\ Get(child, "visible", TRUE)

\* the budget handed on unchanged to the children
next_budget_kept(max_depth) == max_depth

\* the budget of the recursive call (line 143)
next_budget(max_depth) == IF max_depth = NoDepth THEN NoDepth ELSE max_depth - 1

RECURSIVE filter_figma_data(_, _)
filter_figma_data(node, max_depth) ==
  IF ~Truthy(node) THEN EmptyDict
  ELSE IF ~IsDict(node) THEN EmptyDict
  ELSE
    LET next_depth == next_budget(max_depth)
        \* lines 140-156
        kids == IF Has(node, "children") /\ node.children # <<>>
                   /\ (max_depth = NoDepth \/ max_depth > 0)
                THEN LET ok == SelectIdx(node.children, {i \in 1..Len(node.children) :
                                  child_passes(node.children[i])})
                         fc == [j \in 1..Len(ok) |->
                                  filter_figma_data(node.children[ok[j]], next_depth)]
                     IN SelectSeq(fc, LAMBDA c : c # EmptyDict)
                ELSE <<>>
        \* the value written for key, if any (the for loop of lines 134-179)
        Val(key) ==
          IF is_removed(key) THEN <<>>
          ELSE IF key = "children" /\ node.children # <<>>
               THEN IF kids # <<>> THEN << kids >> ELSE <<>>
          ELSE IF key \in simplify_properties THEN Simplify(key, node[key])
          ELSE IF key \in essential_properties THEN << node[key] >>
          ELSE IF SmartKeep(key, node[key]) THEN << node[key] >> ELSE <<>>
        isVector == Get(node, "type", "") \in vector_types
        \* _handle_vector_node deletes the vector properties
        kept == {k \in DOMAIN node : Val(k) # <<>> /\ ~(isVector /\ k \in vector_properties)}
        hints == _add_layout_hints(node)
        added == (IF isVector THEN {"_simplified"} ELSE {})
                 \cup (IF hints.h # <<>> THEN {"_hint"} ELSE {})
                 \cup (IF hints.l # <<>> THEN {"_layout_hint"} ELSE {})
    IN [k \in kept \cup added |->
          IF k = "_simplified" THEN "vector_paths_removed"
          ELSE IF k = "_hint" THEN hints.h[1]
          ELSE IF k = "_layout_hint" THEN hints.l[1]
          ELSE Val(k)[1]]

\* the call self.simplify_properties[key](value) of line 160 raises: a list of
\* paints, strokes or grids holds an entry that is no mapping and the loop
\* reaches it (AttributeError on .get); constraints is no mapping
\* (AttributeError); style is a number ('fontSize' in style: TypeError)
SimplifyRaises(key, value) ==
  CASE key = "fills" ->
         \E i \in 1..Len(value) :
           /\ ~IsDict(value[i])
           /\ \A j \in 1..(i - 1) :
                IsDict(value[j]) => ~(Get(value[j], "visible", TRUE)
                                      /\ Get(value[j], "type", "") = "SOLID")
    [] key = "strokes" ->
         \E i \in 1..Len(value) :
           /\ ~IsDict(value[i])
           /\ \A j \in 1..(i - 1) : IsDict(value[j]) => ~Get(value[j], "visible", TRUE)
    [] key = "layoutGrids" -> \E i \in 1..Len(value) : ~IsDict(value[i])
    [] key = "constraints" -> ~IsDict(value)
    [] key = "style" -> ~IsDict(value) /\ value.truthy /\ value.pytype = "int"
    [] OTHER -> FALSE

\* filter_figma_data(node, max_depth) raises: in the loop of line 134 a call
\* of line 160 raises, or the call for a visible mapping child does
RECURSIVE FilterRaises(_, _)
FilterRaises(node, max_depth) ==
  IF ~Truthy(node) \/ ~IsDict(node) THEN FALSE
  ELSE
    LET next_depth == next_budget(max_depth)
        descends == Has(node, "children") /\ ~is_removed("children") /\ node.children # <<>>
    IN \/ \E key \in DOMAIN node \cap simplify_properties :
            ~is_removed(key) /\ SimplifyRaises(key, node[key])
       \/ /\ descends
          /\ max_depth = NoDepth \/ max_depth > 0
          /\ \E i \in 1..Len(node.children) :
               /\ IsDict(node.children[i])
               /\ Get(node.children[i], "visible", TRUE)
               /\ FilterRaises(node.children[i], next_depth)

\* what a call of filter_figma_data that returns prints (lines 123 and 148)
RECURSIVE FilterWarnings(_, _)
FilterWarnings(node, max_depth) ==
  IF ~Truthy(node) THEN <<>>
  ELSE IF ~IsDict(node)
  THEN << "Warning: Expected dict for node, got " \o node.pytype >>
  ELSE IF /\ Has(node, "children") /\ ~is_removed("children") /\ node.children # <<>>
          /\ (max_depth = NoDepth \/ max_depth > 0)
  THEN LET next_depth == next_budget(max_depth)
           OfChild(child) ==
             IF ~IsDict(child)
             THEN << "Warning: Skipping non-dict child: " \o child.pytype >>
             ELSE IF Get(child, "visible", TRUE) THEN FilterWarnings(child, next_depth)
             ELSE <<>>
       IN Flatten([i \in 1..Len(node.children) |-> OfChild(node.children[i])])
  ELSE <<>>

(***************************************************************************)
(* layout_reconstruction.py : LayoutNode, LayoutReconstructor              *)
(* A LayoutNode is a record; an attribute that is None in Python (a        *)
(* missing name, an absent alignment) is the string PyNoneStr, which is    *)
(* falsy like None.                                                        *)
(***************************************************************************)
Y_TOLERANCE == 5

PyNoneStr == ""

LayoutNode(figma_node) ==
  [id |-> Get(figma_node, "id", PyNoneStr),
   name |-> Get(figma_node, "name", PyNoneStr),
   type |-> Get(figma_node, "type", PyNoneStr),
   layout_type |-> "ABSOLUTE",
   children |-> <<>>,
   original_node |-> figma_node,
   metadata |-> EmptyDict]

\* sort_key of _process_node: (y, x) of the bounding box
sort_key(node) ==
  LET bounds == Get(node, "absoluteBoundingBox", [x |-> 0, y |-> 0])
  IN << Get(bounds, "y", 0), Get(bounds, "x", 0) >>

\* a row sort that keeps the (y, x) order: every node has the same key
x_key_constant(node) == << 0 >>

\* key of the row sort: x of the bounding box
x_key(node) ==
  << Get(Get(node, "absoluteBoundingBox", [x |-> 0]), "x", 0) >>

\* comparison of Python tuples of numbers of the same length
RECURSIVE TupleLess(_, _)
TupleLess(a, b) ==
  IF a = <<>> THEN FALSE
  ELSE Head(a) < Head(b) \/ (Head(a) = Head(b) /\ TupleLess(Tail(a), Tail(b)))

\* sorted(s, key=...) with key[i] the key of s[i]: stable, so s[i] goes behind
\* the elements with a smaller key and the earlier elements with an equal key
sorted(s, key) ==
  LET Before(i) == {j \in 1..Len(s) : \/ TupleLess(key[j], key[i])
                                      \/ (j < i /\ ~TupleLess(key[i], key[j]))}
  IN [p \in 1..Len(s) |-> s[CHOOSE i \in 1..Len(s) : Cardinality(Before(i)) = p - 1]]

\* the tolerance taken as exclusive
same_row_strict(current_node_y, last_node_y) ==
  Abs(current_node_y - last_node_y) < Y_TOLERANCE

\* the test of line 161
same_row(current_node_y, last_node_y) == Abs(current_node_y - last_node_y) <= Y_TOLERANCE

\* the loop with last_node_y following the node added last
RECURSIVE GroupRowsByPrevious(_, _, _, _)
GroupRowsByPrevious(rest, rows, current_row, last_node_y) ==
  IF rest = <<>> THEN Append(rows, current_row)
  ELSE LET current_node == Head(rest)
           current_node_y == sort_key(current_node)[1]
       IN IF same_row(current_node_y, last_node_y)
          THEN GroupRowsByPrevious(Tail(rest), rows, Append(current_row, current_node),
                                   current_node_y)
          ELSE GroupRowsByPrevious(Tail(rest), Append(rows, current_row), <<current_node>>,
                                   current_node_y)

\* the loop of lines 157-169; last_node_y is the y of the first node of the row
RECURSIVE GroupRows(_, _, _, _)
GroupRows(rest, rows, current_row, last_node_y) ==
  IF rest = <<>> THEN Append(rows, current_row)
  ELSE LET current_node == Head(rest)
           current_node_y == sort_key(current_node)[1]
       IN IF same_row(current_node_y, last_node_y)
          THEN GroupRows(Tail(rest), rows, Append(current_row, current_node), last_node_y)
          ELSE GroupRows(Tail(rest), Append(rows, current_row), <<current_node>>, current_node_y)

\* rows of lines 152-169 for the sorted children
RowsOf(sorted_children) ==
  GroupRows(Tail(sorted_children), <<>>, << sorted_children[1] >>,
            sort_key(sorted_children[1])[1])

_infer_grid_columns(children) ==
  IF children = <<>> THEN 1
  ELSE LET x_positions == {Get(children[i].absoluteBoundingBox, "x", 0) :
                             i \in {j \in 1..Len(children) :
                                      Get(children[j], "absoluteBoundingBox", EmptyDict) # EmptyDict}}
       IN IF x_positions # {} THEN Cardinality(x_positions) ELSE 1

ZeroStats == [total_nodes |-> 0, auto_layout_nodes |-> 0, inferred_layout_nodes |-> 0]

AddStats(a, b) ==
  [total_nodes |-> a.total_nodes + b.total_nodes,
   auto_layout_nodes |-> a.auto_layout_nodes + b.auto_layout_nodes,
   inferred_layout_nodes |-> a.inferred_layout_nodes + b.inferred_layout_nodes]

RECURSIVE SumStats(_)
SumStats(rs) == IF rs = <<>> THEN ZeroStats ELSE AddStats(Head(rs).st, SumStats(Tail(rs)))

\* _process_node returns the LayoutNode (ln) and what the call added to
\* self.stats (st)
\* the row group without the first node of its row
row_group_node_dropping(figma_node, index, row_children) ==
  [LayoutNode([id |-> Get(figma_node, "id", "None") \o "-row-" \o ToString(index),
               name |-> "Inferred Row " \o ToString(index + 1),
               type |-> "GROUP"])
     EXCEPT !.layout_type = "ROW_GROUP",
            !.metadata = [inferred |-> TRUE, item_count |-> Len(row_children)],
            !.children = Tail(row_children)]

\* the row group numbered from 1 in its id
row_group_node_one_based(figma_node, index, row_children) ==
  [LayoutNode([id |-> Get(figma_node, "id", "None") \o "-row-" \o ToString(index + 1),
               name |-> "Inferred Row " \o ToString(index + 1),
               type |-> "GROUP"])
     EXCEPT !.layout_type = "ROW_GROUP",
            !.metadata = [inferred |-> TRUE, item_count |-> Len(row_children)],
            !.children = row_children]

\* the synthetic row group of lines 189-198, row_children being the processed
\* nodes of the row
row_group_node(figma_node, index, row_children) ==
  [LayoutNode([id |-> Get(figma_node, "id", "None") \o "-row-" \o ToString(index),
               name |-> "Inferred Row " \o ToString(index + 1),
               type |-> "GROUP"])
     EXCEPT !.layout_type = "ROW_GROUP",
            !.metadata = [inferred |-> TRUE, item_count |-> Len(row_children)],
            !.children = row_children]

RECURSIVE _process_node(_)
_process_node(figma_node) ==
  LET layout_node == LayoutNode(figma_node)
      one == [ZeroStats EXCEPT !.total_nodes = 1]
      children == Get(figma_node, "children", <<>>)
      valid_children == SelectSeq(children, IsDict)
      layout_mode == Get(figma_node, "layoutMode", PyNoneStr)
      inferred == Get(figma_node, "inferredAutoLayout", EmptyDict)
  IN
  IF children = <<>> THEN [ln |-> layout_node, st |-> one]
  ELSE IF layout_mode \in {"HORIZONTAL", "VERTICAL", "GRID"}
  THEN \* Step 1: Figma's auto layout (lines 83-115)
    LET sub == [i \in 1..Len(valid_children) |-> _process_node(valid_children[i])]
        base == [item_spacing |-> Get(figma_node, "itemSpacing", 0),
                 auto_layout |-> TRUE,
                 primary_axis_align |-> Get(figma_node, "primaryAxisAlignItems", PyNoneStr),
                 counter_axis_align |-> Get(figma_node, "counterAxisAlignItems", PyNoneStr),
                 primary_axis_sizing |-> Get(figma_node, "primaryAxisSizingMode", PyNoneStr),
                 counter_axis_sizing |-> Get(figma_node, "counterAxisSizingMode", PyNoneStr),
                 layout_wrap |-> Get(figma_node, "layoutWrap", PyNoneStr)]
        grid == [grid_style_id |-> Get(figma_node, "gridStyleId", PyNoneStr),
                 layout_grids |-> Get(figma_node, "layoutGrids", "")]
        cols == [columns |-> _infer_grid_columns(valid_children)]
        meta == IF layout_mode # "GRID" THEN base
                ELSE IF valid_children # <<>> THEN base @@ grid @@ cols
                ELSE base @@ grid
    IN [ln |-> [layout_node EXCEPT !.layout_type = layout_mode,
                                   !.children = [i \in 1..Len(sub) |-> sub[i].ln],
                                   !.metadata = meta],
        st |-> AddStats([one EXCEPT !.auto_layout_nodes = 1], SumStats(sub))]
  ELSE IF inferred # EmptyDict
  THEN \* Step 2: inferred auto layout (lines 118-129)
    LET sub == [i \in 1..Len(valid_children) |-> _process_node(valid_children[i])]
    IN [ln |-> [layout_node EXCEPT !.layout_type = Get(inferred, "layoutMode", "ABSOLUTE"),
                                   !.children = [i \in 1..Len(sub) |-> sub[i].ln],
                                   !.metadata = [inferred |-> TRUE,
                                                 item_spacing |-> Get(inferred, "itemSpacing", 0)]],
        st |-> AddStats([one EXCEPT !.inferred_layout_nodes = 1], SumStats(sub))]
  ELSE \* Step 3: heuristic inference (lines 131-206)
    LET sorted_children == sorted(valid_children, [i \in 1..Len(valid_children) |-> sort_key(valid_children[i])])
    IN IF sorted_children = <<>> THEN [ln |-> layout_node, st |-> one]
       ELSE
         LET rows == RowsOf(sorted_children)
         IN IF Len(rows) > 1
            THEN
              LET RowResult(index) ==
                    LET sorted_row_nodes == sorted(rows[index + 1], [i \in 1..Len(rows[index + 1]) |-> x_key(rows[index + 1][i])])
                        sub == [i \in 1..Len(sorted_row_nodes) |-> _process_node(sorted_row_nodes[i])]
                    IN IF Len(sorted_row_nodes) = 1 THEN sub[1]
                       ELSE [ln |-> row_group_node(figma_node, index,
                                                   [i \in 1..Len(sub) |-> sub[i].ln]),
                             st |-> SumStats(sub)]
                  rr == [i \in 1..Len(rows) |-> RowResult(i - 1)]
              IN [ln |-> [layout_node EXCEPT !.layout_type = "VERTICAL",
                                             !.metadata = [has_row_groups |-> TRUE,
                                                           inferred |-> TRUE,
                                                           row_count |-> Len(rows)],
                                             !.children = [i \in 1..Len(rr) |-> rr[i].ln]],
                  st |-> AddStats(one, SumStats(rr))]
            ELSE
              LET sorted_row_nodes == sorted(rows[1], [i \in 1..Len(rows[1]) |-> x_key(rows[1][i])])
                  sub == [i \in 1..Len(sorted_row_nodes) |-> _process_node(sorted_row_nodes[i])]
              IN [ln |-> [layout_node EXCEPT !.layout_type = "HORIZONTAL",
                                             !.metadata = [inferred |-> TRUE],
                                             !.children = [i \in 1..Len(sub) |-> sub[i].ln]],
                  st |-> AddStats(one, SumStats(sub))]

\* reconstruct_layout without the test of lines 66-67
reconstruct_layout_unchecked(root_figma_node) == << _process_node(root_figma_node) >>

\* reconstruct_layout: None (<<>>) for a falsy root
reconstruct_layout(root_figma_node) ==
  IF ~Truthy(root_figma_node) THEN <<>>
  ELSE << _process_node(root_figma_node) >>

(***************************************************************************)
(* modus_component_mapper.py : regular expressions of NAME_MAPPINGS        *)
(* A pattern r'\b( a1 | a2 | .. )\b' is a sequence of groups; a group is    *)
(* [alts |-> the alternatives, opt |-> whether the group is followed by ?]; *)
(* an alternative is a sequence of literals and of the markers "\\s?" and  *)
(* "\\s*".  The \b at both ends is part of RegexSearch.                     *)
(***************************************************************************)
CharAt(s, i) == IF i >= 1 /\ i <= Len(s) THEN SubSeq(s, i, i) ELSE ""

\* the positions behind a match of the elements es that starts at i
RECURSIVE MatchElems(_, _, _)
MatchElems(es, s, i) ==
  IF es = <<>> THEN {i}
  ELSE LET e == Head(es)
       IN IF e = "\\s?"
          THEN MatchElems(Tail(es), s, i)
               \cup (IF IsSpaceChar(CharAt(s, i)) THEN MatchElems(Tail(es), s, i + 1) ELSE {})
          ELSE IF e = "\\s*"
          THEN UNION {MatchElems(Tail(es), s, j) :
                        j \in {k \in i..(Len(s) + 1) :
                                 \A m \in i..(k - 1) : IsSpaceChar(CharAt(s, m))}}
          ELSE IF i + Len(e) - 1 <= Len(s) /\ SubSeq(s, i, i + Len(e) - 1) = e
          THEN MatchElems(Tail(es), s, i + Len(e))
          ELSE {}

MatchGroup(g, s, i) ==
  UNION {MatchElems(g.alts[a], s, i) : a \in 1..Len(g.alts)}
  \cup (IF g.opt THEN {i} ELSE {})

RECURSIVE MatchGroups(_, _, _)
MatchGroups(gs, s, starts) ==
  IF gs = <<>> THEN starts
  ELSE MatchGroups(Tail(gs), s, UNION {MatchGroup(Head(gs), s, i) : i \in starts})

\* \b between the characters i-1 and i
WordBoundary(s, i) == IsWordChar(CharAt(s, i - 1)) # IsWordChar(CharAt(s, i))

\* the positions of s where \b matches
Boundaries(s) == {i \in 1..(Len(s) + 1) : WordBoundary(s, i)}

\* re.search(r'\b' + pattern + r'\b', s), boundaries being Boundaries(s): a
\* match starts at a boundary and ends at one
RegexSearch(pattern, s, boundaries) ==
  MatchGroups(pattern, s, boundaries) \cap boundaries # {}

G(alts) == [alts |-> alts, opt |-> FALSE]

GOpt(alts) == [alts |-> alts, opt |-> TRUE]

NAME_MAPPINGS == <<
  [pat |-> << G(<< <<"button">>, <<"btn">>, <<"cta">> >>) >>, kind |-> "modus-wc-button"],
  [pat |-> << G(<< <<"input">>, <<"text", "\\s?", "field">>, <<"textfield">> >>) >>,
   kind |-> "modus-wc-text-input"],
  [pat |-> << G(<< <<"text", "\\s?", "area">>, <<"textarea">> >>) >>, kind |-> "modus-wc-textarea"],
  [pat |-> << G(<< <<"number">>, <<"numeric">> >>), G(<< <<"\\s?">> >>),
              GOpt(<< <<"input">>, <<"field">> >>) >>, kind |-> "modus-wc-number-input"],
  [pat |-> << G(<< <<"select">>, <<"dropdown">> >>) >>, kind |-> "modus-wc-select"],
  [pat |-> << G(<< <<"checkbox">>, <<"check">> >>) >>, kind |-> "modus-wc-checkbox"],
  [pat |-> << G(<< <<"radio">>, <<"radio", "\\s?", "button">> >>) >>, kind |-> "modus-wc-radio"],
  [pat |-> << G(<< <<"switch">>, <<"toggle">> >>) >>, kind |-> "modus-wc-switch"],
  [pat |-> << G(<< <<"slider">>, <<"range">> >>) >>, kind |-> "modus-wc-slider"],
  [pat |-> << G(<< <<"date">>, <<"calendar">>, <<"date", "\\s?", "picker">> >>) >>,
   kind |-> "modus-wc-date"],
  [pat |-> << G(<< <<"time">>, <<"time", "\\s?", "picker">> >>) >>, kind |-> "modus-wc-time-input"],
  [pat |-> << G(<< <<"search">>, <<"autocomplete">>, <<"typeahead">> >>) >>,
   kind |-> "modus-wc-autocomplete"],
  [pat |-> << G(<< <<"side", "\\s*", "navigation">>, <<"side-navigation">>, <<"sidebar">>,
                   <<"side", "\\s*", "nav">>, <<"sidenav">>, <<"aside">> >>) >>,
   kind |-> "modus-wc-side-navigation"],
  [pat |-> << G(<< <<"navbar">>, <<"nav", "\\s*", "bar">>, <<"header">>,
                   <<"top", "\\s*", "bar">>, <<"navigation", "\\s*", "bar">> >>) >>,
   kind |-> "modus-wc-navbar"],
  [pat |-> << G(<< <<"breadcrumb">>, <<"breadcrumbs">> >>) >>, kind |-> "modus-wc-breadcrumbs"],
  [pat |-> << G(<< <<"tab">>, <<"tabs">> >>) >>, kind |-> "modus-wc-tabs"],
  [pat |-> << G(<< <<"pagination">>, <<"pager">> >>) >>, kind |-> "modus-wc-pagination"],
  [pat |-> << G(<< <<"card">>, <<"tile">>, <<"panel">> >>) >>, kind |-> "modus-wc-card"],
  [pat |-> << G(<< <<"table">>, <<"grid">> >>) >>, kind |-> "modus-wc-table"],
  [pat |-> << G(<< <<"alert">>, <<"notification">>, <<"message">> >>) >>, kind |-> "modus-wc-alert"],
  [pat |-> << G(<< <<"modal">>, <<"dialog">>, <<"popup">> >>) >>, kind |-> "modus-wc-modal"],
  [pat |-> << G(<< <<"tooltip">>, <<"hint">>, <<"popover">> >>) >>, kind |-> "modus-wc-tooltip"],
  [pat |-> << G(<< <<"badge">> >>) >>, kind |-> "modus-wc-badge"],
  [pat |-> << G(<< <<"chip">>, <<"tag">>, <<"pill">> >>) >>, kind |-> "modus-wc-chip"],
  [pat |-> << G(<< <<"progress">>, <<"progress", "\\s?", "bar">> >>) >>, kind |-> "modus-wc-progress"],
  [pat |-> << G(<< <<"loader">>, <<"spinner">>, <<"loading">> >>) >>, kind |-> "modus-wc-loader"],
  [pat |-> << G(<< <<"skeleton">> >>) >>, kind |-> "modus-wc-skeleton"],
  [pat |-> << G(<< <<"avatar">>, <<"profile", "\\s?", "pic">> >>) >>, kind |-> "modus-wc-avatar"],
  [pat |-> << G(<< <<"icon">> >>) >>, kind |-> "modus-wc-icon"],
  [pat |-> << G(<< <<"divider">>, <<"separator">> >>) >>, kind |-> "modus-wc-divider"] >>

\* the loop over NAME_MAPPINGS.items(): the kind of the first pattern that
\* matches, <<>> when none does
FirstNameMapping(name_lower) ==
  LET boundaries == Boundaries(name_lower)
      hits == {i \in 1..Len(NAME_MAPPINGS) :
                 RegexSearch(NAME_MAPPINGS[i].pat, name_lower, boundaries)}
  IN IF hits = {} THEN <<>>
     ELSE << NAME_MAPPINGS[CHOOSE i \in hits : \A j \in hits : i <= j].kind >>

\* [\w-]
IsNameChar(c) == IsWordChar(c) \/ c = "-"

\* re.search(r'modus-wc-[\w-]+', s): the leftmost, longest match
ModusNameSearch(s) ==
  LET pre == "modus-wc-"
      starts == {i \in 1..Len(s) : /\ i + Len(pre) <= Len(s)
                                   /\ SubSeq(s, i, i + Len(pre) - 1) = pre
                                   /\ IsNameChar(CharAt(s, i + Len(pre)))}
  IN IF starts = {} THEN <<>>
     ELSE LET i == CHOOSE a \in starts : \A b \in starts : a <= b
              j == CHOOSE e \in (i + Len(pre))..Len(s) :
                     /\ \A m \in (i + Len(pre))..e : IsNameChar(CharAt(s, m))
                     /\ ~IsNameChar(CharAt(s, e + 1))
          IN << SubSeq(s, i, j) >>

_detect_by_name(name) ==
  IF name = PyNoneStr THEN <<>>
  ELSE LET name_lower == Lower(name)
           direct == IF Contains(name_lower, "modus-") THEN ModusNameSearch(name_lower) ELSE <<>>
       IN IF direct # <<>> THEN direct ELSE FirstNameMapping(name_lower)

(***************************************************************************)
(* modus_component_mapper.py : ModusComponentMapper                        *)
(* node.original_node is a node as the filter returns it: fills is the     *)
(* string of _simplify_fills, strokes the dict of _simplify_strokes.       *)
(***************************************************************************)
Bounds(node) == Get(node.original_node, "absoluteBoundingBox", EmptyDict)

HasTextChild(node) == \E i \in 1..Len(node.children) : node.children[i].type = "TEXT"

\* bool(original.get('fills'))
HasFills(original) == Get(original, "fills", "") # ""

_is_button_structure(node) ==
  LET bounds == Bounds(node)
      original == node.original_node
  IN /\ node.type \in {"FRAME", "RECTANGLE", "COMPONENT", "INSTANCE"}
     /\ ~(Get(bounds, "width", 0) < 50 \/ Get(bounds, "height", 0) < 24)
     /\ HasTextChild(node)
     /\ \/ HasFills(original)
        \/ Get(original, "cornerRadius", 0) > 0
        \/ Has(original, "effects")

\* the input test without the stroke alternative
_is_input_structure_by_text(node) ==
  LET bounds == Bounds(node)
      width == Get(bounds, "width", 0)
      height == Get(bounds, "height", 0)
  IN /\ node.type \in {"FRAME", "RECTANGLE"}
     /\ ~(width < 100 \/ height < 30)
     /\ width > height * 3 /\ HasTextChild(node)

_is_input_structure(node) ==
  LET bounds == Bounds(node)
      width == Get(bounds, "width", 0)
      height == Get(bounds, "height", 0)
  IN /\ node.type \in {"FRAME", "RECTANGLE"}
     /\ ~(width < 100 \/ height < 30)
     /\ \/ Has(node.original_node, "strokes")
        \/ (width > height * 3 /\ HasTextChild(node))

_is_card_structure(node) ==
  LET bounds == Bounds(node)
      original == node.original_node
  IN /\ node.type \in {"FRAME", "COMPONENT", "INSTANCE"}
     /\ ~(Get(bounds, "width", 0) < 150 \/ Get(bounds, "height", 0) < 100)
     /\ (HasFills(original) \/ Has(original, "effects"))
     /\ Len(node.children) >= 2

_is_navbar_structure(node) ==
  LET bounds == Bounds(node)
  IN /\ node.layout_type = "HORIZONTAL"
     /\ ~(Get(bounds, "y", 999) > 100)
     \* height > width * 0.2
     /\ ~(Get(bounds, "height", 0) * 5 > Get(bounds, "width", 0))
     /\ Len(node.children) >= 2

_is_table_structure(node) ==
  IF node.layout_type = "GRID"
  THEN Get(node.metadata, "rows", 0) >= 2 /\ Get(node.metadata, "columns", 0) >= 2
  ELSE IF node.layout_type = "VERTICAL" /\ Len(node.children) >= 3
          /\ node.children[1].layout_type = "HORIZONTAL"
  THEN \A i \in 2..Len(node.children) :
          /\ node.children[i].layout_type = "HORIZONTAL"
          /\ Len(node.children[i].children) = Len(node.children[1].children)
  ELSE FALSE

_is_chip_structure(node) ==
  LET bounds == Bounds(node)
      width == Get(bounds, "width", 0)
      height == Get(bounds, "height", 0)
  IN /\ node.type \in {"FRAME", "COMPONENT", "INSTANCE"}
     /\ ~(width < 40 \/ height < 20 \/ height > 40)
     \* cornerRadius >= height / 3
     /\ Get(node.original_node, "cornerRadius", 0) * 3 >= height
     /\ HasTextChild(node)

_is_avatar_structure(node) ==
  LET bounds == Bounds(node)
      width == Get(bounds, "width", 0)
      height == Get(bounds, "height", 0)
  IN /\ node.type \in {"ELLIPSE", "FRAME", "RECTANGLE"}
     /\ ~(Abs(width - height) > 5)
     /\ ~(width < 24 \/ width > 150)
     /\ node.type \in {"FRAME", "RECTANGLE"} =>
           \* corner_radius >= width / 2, and has_content
           /\ Get(node.original_node, "cornerRadius", 0) * 2 >= width
           /\ node.children # <<>>

\* STRUCTURAL_PATTERNS, in declaration order
StructuralMatch(node) ==
  IF _is_button_structure(node) THEN << "modus-wc-button" >>
  ELSE IF _is_input_structure(node) THEN << "modus-wc-text-input" >>
  ELSE IF _is_card_structure(node) THEN << "modus-wc-card" >>
  ELSE IF _is_navbar_structure(node) THEN << "modus-wc-navbar" >>
  ELSE IF _is_table_structure(node) THEN << "modus-wc-table" >>
  ELSE IF _is_chip_structure(node) THEN << "modus-wc-chip" >>
  ELSE IF _is_avatar_structure(node) THEN << "modus-wc-avatar" >>
  ELSE <<>>

\* the INSTANCE branch of _detect_by_structure (lines 242-264)
InstanceMatch(node) ==
  IF node.type = "INSTANCE" /\ node.original_node # EmptyDict
     /\ Get(node.original_node, "componentId", "") # ""
  THEN LET byName == FirstNameMapping(Lower(node.name))
           variant_props == Get(node.original_node, "variantProperties", EmptyDict)
       IN IF byName # <<>> THEN byName
          ELSE IF Has(variant_props, "type")
          THEN LET variant_type == Lower(variant_props.type)
               IN IF Contains(variant_type, "button") THEN << "modus-wc-button" >>
                  ELSE IF Contains(variant_type, "input") THEN << "modus-wc-text-input" >>
                  ELSE IF Contains(variant_type, "nav") THEN << "modus-wc-navbar" >>
                  ELSE <<>>
          ELSE <<>>
  ELSE <<>>

_detect_by_structure(node) ==
  IF InstanceMatch(node) # <<>> THEN InstanceMatch(node) ELSE StructuralMatch(node)

_detect_by_style(node) ==
  LET bounds == Bounds(node)
      width == Get(bounds, "width", 0)
      height == Get(bounds, "height", 0)
  IN IF node.type \in {"RECTANGLE", "FRAME"} /\ width = height /\ 10 <= width /\ width <= 50
     THEN << "modus-wc-icon" >>
     ELSE IF node.type = "RECTANGLE"
             /\ ((width > 100 /\ height <= 2) \/ (height > 100 /\ width <= 2))
     THEN << "modus-wc-divider" >>
     ELSE <<>>

\* _extract_properties: [raised |-> whether the call raises, props |-> the
\* mapping it returns otherwise].  opacity is bound only by line 526, so line
\* 541 raises UnboundLocalError when 'disabled' came from the variant state.
_extract_properties(node, component_type) ==
  LET original == node.original_node
      variant_props == IF Get(original, "type", "") = "INSTANCE"
                       THEN Get(original, "variantProperties", EmptyDict) ELSE EmptyDict
      state == Lower(Get(variant_props, "state", ""))
      p_state == IF state \in {"disabled", "hover", "active", "focused"}
                 THEN [state |-> state] @@ (IF state = "disabled" THEN [disabled |-> TRUE] ELSE EmptyDict)
                 ELSE EmptyDict
      p_variant == p_state
                   @@ (IF Has(variant_props, "size") THEN [size |-> Lower(variant_props.size)] ELSE EmptyDict)
                   @@ (IF Has(variant_props, "variant") THEN [variant |-> Lower(variant_props.variant)] ELSE EmptyDict)
                   @@ (IF Has(variant_props, "type") THEN [type |-> Lower(variant_props.type)] ELSE EmptyDict)
      height == Get(Get(original, "absoluteBoundingBox", EmptyDict), "height", 0)
      opacity_bound == ~Has(p_variant, "disabled")
      opacity == Get(original, "opacity", 100)
      \* the loop of lines 538-543 over the children from index i on:
      \* "raise", <<text>> for a placeholder found, <<>> for none
      texts == SelectIdx(node.children, {i \in 1..Len(node.children) :
                  /\ node.children[i].type = "TEXT"
                  /\ node.children[i].original_node # EmptyDict
                  /\ Get(node.children[i].original_node, "characters", "") # ""})
      NamedPlaceholder(i) == Contains(Lower(node.children[i].name), "placeholder")
      first_hit == SelectSeq(texts, LAMBDA i : NamedPlaceholder(i) \/ ~opacity_bound \/ opacity < 60)
      placeholder_raises == first_hit # <<>> /\ ~NamedPlaceholder(first_hit[1]) /\ ~opacity_bound
      p_kind ==
        CASE component_type = "modus-wc-button" ->
               \* fills is not a list here, so no variant is inferred (line 502)
               IF ~Has(p_variant, "size")
               THEN [size |-> IF height <= 32 THEN "small"
                              ELSE IF height >= 48 THEN "large" ELSE "medium"]
               ELSE EmptyDict
          [] component_type = "modus-wc-text-input" ->
               (IF opacity_bound /\ opacity < 60 THEN [disabled |-> TRUE] ELSE EmptyDict)
               @@ (IF first_hit # <<>> /\ ~placeholder_raises
                   THEN [placeholder |-> node.children[first_hit[1]].original_node.characters]
                   ELSE EmptyDict)
          [] component_type = "modus-wc-chip" ->
               IF ~Has(p_variant, "size")
               THEN [size |-> IF height <= 24 THEN "small" ELSE "medium"]
               ELSE EmptyDict
          [] component_type = "modus-wc-navbar" ->
               [position |-> IF Get(node.metadata, "pattern", "") = "navigation"
                             THEN "fixed" ELSE "static"]
          [] component_type = "modus-wc-side-navigation" ->
               LET bounds == Get(original, "absoluteBoundingBox", EmptyDict)
               IN IF bounds # EmptyDict /\ Get(bounds, "width", 240) < 100
                  THEN [collapsed |-> TRUE] ELSE EmptyDict
          [] OTHER -> EmptyDict
      p_align == IF Get(original, "layoutAlign", "") = "STRETCH"
                 THEN [fullWidth |-> TRUE] ELSE EmptyDict
  IN [raised |-> component_type = "modus-wc-text-input" /\ placeholder_raises,
      props |-> p_align @@ p_variant @@ p_kind]

\* confidence in hundredths
ModusComponent(component_type, node, confidence, detection_method, properties) ==
  [component_type |-> component_type,
   original_node_id |-> node.id,
   original_node_name |-> node.name,
   properties |-> properties,
   confidence |-> confidence,
   detection_method |-> detection_method,
   layout_css |-> EmptyDict,
   children |-> <<>>]

\* the structure tier tried before the naming tier
first_match_structure_first(by_name, by_structure, by_style) ==
  IF by_structure # <<>>
  THEN << by_structure[1], 80, "structure", "detected_by_structure" >>
  ELSE IF by_name # <<>> THEN << by_name[1], 95, "naming", "detected_by_name" >>
  ELSE IF by_style # <<>> THEN << by_style[1], 70, "style", "detected_by_style" >>
  ELSE <<>>

\* the component kinds the mapper names: the values of NAME_MAPPINGS (lines
\* 43-83), the keys of STRUCTURAL_PATTERNS (lines 86-94) and the two kinds of
\* _detect_by_style (lines 284, 289)
ComponentCatalog ==
  {NAME_MAPPINGS[i].kind : i \in 1..Len(NAME_MAPPINGS)}
  \cup {"modus-wc-button", "modus-wc-text-input", "modus-wc-card", "modus-wc-navbar",
        "modus-wc-table", "modus-wc-chip", "modus-wc-avatar"}
  \cup {"modus-wc-icon", "modus-wc-divider"}

\* the order of the tiers in _identify_component (lines 176, 189, 202):
\* <<component_type, confidence, detection_method, counter of self.stats>> of
\* the first tier that matched, <<>> when none did
first_match(by_name, by_structure, by_style) ==
  IF by_name # <<>> THEN << by_name[1], 95, "naming", "detected_by_name" >>
  ELSE IF by_structure # <<>>
       THEN << by_structure[1], 80, "structure", "detected_by_structure" >>
  ELSE IF by_style # <<>> THEN << by_style[1], 70, "style", "detected_by_style" >>
  ELSE <<>>

\* _identify_component: [kind |-> "component", comp |-> the ModusComponent],
\* [kind |-> "none"] for None, [kind |-> "raised"] when _extract_properties
\* raises; tier is the counter of self.stats the call increments
_identify_component(node) ==
  LET Result(found, ep) ==
        IF ep.raised THEN [kind |-> "raised", tier |-> found[4]]
        ELSE [kind |-> "component", tier |-> found[4],
              comp |-> ModusComponent(found[1], node, found[2], found[3], ep.props)]
      Build(found) ==
        IF found = <<>> THEN [kind |-> "none", tier |-> "undetected"]
        ELSE Result(found, _extract_properties(node, found[1]))
  IN Build(first_match(_detect_by_name(node.name), _detect_by_structure(node),
                       _detect_by_style(node)))

_analyze_unmatch_reasons(node) ==
  (IF node.name = PyNoneStr \/ Lower(node.name) \in {"frame", "group", "rectangle", "vector"}
   THEN << "Generic Figma element name (Frame/Group/Rectangle)" >> ELSE <<>>)
  \o (IF Len(node.children) > 2 /\ node.layout_type \in {"HORIZONTAL", "VERTICAL", "GRID"}
      THEN << "Appears to be a layout container (" \o node.layout_type \o ")" >> ELSE <<>>)
  \o (IF node.type = "TEXT" /\ node.children = <<>>
      THEN << "Standalone text element (not part of a component)" >> ELSE <<>>)
  \o (IF node.type \in {"VECTOR", "ELLIPSE", "POLYGON", "STAR", "LINE"}
      THEN << "Decorative/graphic element" >> ELSE <<>>)

\* the entry appended to self.undetected_nodes (lines 153-161); a LayoutNode
\* has no attribute text or fills
UndetectedEntry(node) ==
  LET reasons == _analyze_unmatch_reasons(node)
  IN [id |-> node.id, name |-> node.name, type |-> node.type,
      layout_type |-> node.layout_type,
      children_count |-> Len(node.children),
      has_text |-> FALSE,
      possible_reasons |-> IF reasons = <<>>
                           THEN << "No clear component pattern detected" >> ELSE reasons]

\* the nodes in the order _map_node_recursive visits them
RECURSIVE Preorder(_)
Preorder(node) ==
  << node >> \o Flatten([i \in 1..Len(node.children) |-> Preorder(node.children[i])])

\* every component appended to the top-level list, whatever its parent
attach_flat(component, below) ==
  IF component.kind = "component" THEN << component.comp >> \o below ELSE below

\* a classified node appended twice
attach_twice(component, below) ==
  IF component.kind = "component"
  THEN << [component.comp EXCEPT !.children = below],
          [component.comp EXCEPT !.children = below] >>
  ELSE below

\* lines 134-150 and 163-164: a classified node is appended to its parent
\* component (or to the top-level list) and becomes the parent of what is
\* classified below it; an unclassified node passes its parent on
attach(component, below) ==
  IF component.kind = "component"
  THEN << [component.comp EXCEPT !.children = below] >>
  ELSE below

\* _map_node_recursive(node, components, parent_component) when no call
\* raises: the components the call appends to parent_component.children (or
\* to components when there is no parent), each with its own children filled
RECURSIVE _map_node_recursive(_)
_map_node_recursive(node) ==
  attach(_identify_component(node),
         Flatten([i \in 1..Len(node.children) |-> _map_node_recursive(node.children[i])]))

(***************************************************************************)
(* layout_reconstruction.py : create_llm_summary, create_compact_llm_summary*)
(* component_map is a function from node ids to component dicts;           *)
(* component_map.get(id) is falsy when id is not in its domain.            *)
(***************************************************************************)
DEFAULT_MAX_DEPTH == 5

ALWAYS_SHOWN_DEPTH == 3

PURE_CONTAINER_CHILDREN == 5

\* None is <<>>, a summary s is <<s>>
RECURSIVE create_llm_summary(_, _, _, _, _)
create_llm_summary(layout_node, component_map, max_depth, current_depth, skip_pure_containers) ==
  LET detected == layout_node.id \in DOMAIN component_map
      has_component_child == \E i \in 1..Len(layout_node.children) :
                                layout_node.children[i].id \in DOMAIN component_map
      detected_component == component_map[layout_node.id]
      base == [name |-> layout_node.name, layout |-> layout_node.layout_type]
      summary == IF detected
                 THEN base @@ [component |-> detected_component.component_type]
                      @@ (IF detected_component.properties # EmptyDict
                          THEN [properties |-> detected_component.properties] ELSE EmptyDict)
                 ELSE base @@ [component |-> IF layout_node.children # <<>>
                                             THEN "container" ELSE "element"]
      subs == [i \in 1..Len(layout_node.children) |->
                 create_llm_summary(layout_node.children[i], component_map, max_depth,
                                    current_depth + 1, skip_pure_containers)]
      children == Flatten(subs)
  IN IF current_depth >= max_depth THEN <<>>
     ELSE IF skip_pure_containers /\ ~detected /\ layout_node.type \in {"VECTOR", "GROUP"}
             /\ ~has_component_child /\ Len(layout_node.children) > PURE_CONTAINER_CHILDREN
     THEN <<>>
     ELSE IF layout_node.children # <<>>
             /\ (\/ layout_node.layout_type \in {"VERTICAL", "HORIZONTAL", "ROW_GROUP", "GRID"}
                 \/ detected
                 \/ current_depth < ALWAYS_SHOWN_DEPTH)
     THEN IF children # <<>> THEN << summary @@ [children |-> children] >>
          ELSE IF detected THEN << summary >>
          ELSE <<>>
     ELSE << summary >>

\* extract_components of create_compact_llm_summary: the items, depth included
RECURSIVE extract_components(_, _, _)
extract_components(node, component_map, depth) ==
  LET detected == node.id \in DOMAIN component_map
      item == [name |-> node.name,
               component |-> component_map[node.id].component_type,
               layout_context |-> node.layout_type,
               depth |-> depth]
             @@ (IF component_map[node.id].properties # EmptyDict
                 THEN [properties |-> component_map[node.id].properties] ELSE EmptyDict)
  IN (IF detected THEN << item >> ELSE <<>>)
     \o Flatten([i \in 1..Len(node.children) |->
                   extract_components(node.children[i], component_map, depth + 1)])

\* _get_all_nodes
RECURSIVE _get_all_nodes(_)
_get_all_nodes(node) ==
  << node >> \o Flatten([i \in 1..Len(node.children) |-> _get_all_nodes(node.children[i])])

WithoutDepth(item) == [k \in DOMAIN item \ {"depth"} |-> item[k]]

create_compact_llm_summary(layout_node, component_map) ==
  LET components == extract_components(layout_node, component_map, 0)
      depths == {components[i].depth : i \in 1..Len(components)}
      all == _get_all_nodes(layout_node)
  IN [page_layout |-> layout_node.layout_type,
      total_components |-> Len(components),
      component_hierarchy |->
        [d \in depths |->
           LET at == SelectIdx(components, {i \in 1..Len(components) : components[i].depth = d})
           IN [j \in 1..Len(at) |-> WithoutDepth(components[at[j]])]],
      layout_patterns |->
        [has_row_groups |-> \E i \in 1..Len(all) : all[i].layout_type = "ROW_GROUP",
         has_grid |-> \E i \in 1..Len(all) : all[i].layout_type = "GRID",
         uses_auto_layout |-> \E i \in 1..Len(all) : Get(all[i].metadata, "auto_layout", FALSE)]]

(***************************************************************************)
(* universal_figma_analyzer.py : _build_concise_layout_structure           *)
(* An entry of a children list is a node_info (it has "id") or a sentinel  *)
(* (it has "count").  The multiplication sign of the collapsed name is     *)
(* written x.  Widths and heights are integers, which round() returns      *)
(* unchanged.                                                              *)
(***************************************************************************)
CONCISE_MAX_DEPTH == 5

CONCISE_ALWAYS_DEPTH == 2

CONCISE_PATTERN_LIMIT == 5

CONCISE_COLLAPSE_OVER == 20

CONCISE_SHOWN_OF_MANY == 3

CONCISE_SHOWN == 5

CONCISE_CHECKED == 5

\* {comp.original_node_id: comp for comp in components if comp.original_node_id}
ConciseCompMap(components) ==
  LET ids == {components[i].original_node_id : i \in 1..Len(components)} \ {PyNoneStr}
  IN [id \in ids |->
        components[CHOOSE i \in 1..Len(components) :
                     /\ components[i].original_node_id = id
                     /\ \A j \in 1..Len(components) :
                          components[j].original_node_id = id => j <= i]]

\* {k: v for k, v in component.properties.items() if v}
BoolProperties == {"disabled", "collapsed", "fullWidth"}

TruthyProperties(properties) ==
  LET keep == {k \in DOMAIN properties :
                 IF k \in BoolProperties THEN properties[k] ELSE properties[k] # ""}
  IN [k \in keep |-> properties[k]]

RECURSIVE should_include_node(_, _, _)
should_include_node(node, depth, comp_map) ==
  IF depth <= CONCISE_ALWAYS_DEPTH THEN TRUE
  ELSE IF node.id \in DOMAIN comp_map THEN TRUE
  ELSE IF node.type \in {"FRAME", "GROUP"} /\ Len(node.children) > 0
  THEN \E i \in 1..Len(node.children) :
         /\ i <= CONCISE_CHECKED
         /\ \/ node.children[i].id \in DOMAIN comp_map
            \/ should_include_node(node.children[i], depth + 1, comp_map)
  ELSE FALSE

\* node.name or node.type
NameOrType(node) == IF node.name # PyNoneStr THEN node.name ELSE node.type

\* the entry that stands for the children of a node whose children all have
\* the name of the first
RepeatedPattern(children) ==
  [name |-> NameOrType(children[1]) \o " (x" \o ToString(Len(children)) \o ")",
   type |-> "REPEATED_PATTERN",
   count |-> Len(children),
   note |-> "Collapsed " \o ToString(Len(children)) \o " identical elements"]

\* the entry that stands for the children after the first three
Truncated(children) ==
  [name |-> "... and " \o ToString(Len(children) - CONCISE_SHOWN_OF_MANY) \o " more items",
   type |-> "TRUNCATED",
   count |-> Len(children) - CONCISE_SHOWN_OF_MANY]

\* the children the normal branch visits: node.children[:5]
shown_children(children) ==
  SubSeq(children, 1, IF Len(children) < CONCISE_SHOWN THEN Len(children) ELSE CONCISE_SHOWN)

\* build_concise_node: None is <<>>, a node_info n is <<n>>.  seen_patterns
\* is the sequence of the pattern keys counted so far, one entry per count.
RECURSIVE build_concise_node(_, _, _, _)
build_concise_node(node, depth, seen_patterns, comp_map) ==
  LET pattern_key == node.type \o ":" \o node.name
      seen_count == Cardinality({i \in 1..Len(seen_patterns) : seen_patterns[i] = pattern_key})
      seen_next == Append(seen_patterns, pattern_key)
      is_component == node.id \in DOMAIN comp_map
      component == comp_map[node.id]
      bounds == node.original_node.absoluteBoundingBox
      node_info ==
        [id |-> node.id, name |-> NameOrType(node), layout |-> node.layout_type]
        @@ (IF is_component
            THEN [component |-> [type |-> component.component_type,
                                 properties |-> TruthyProperties(component.properties)]]
            ELSE EmptyDict)
        @@ (IF (depth < 3 \/ is_component) /\ node.original_node # EmptyDict
               /\ Has(node.original_node, "absoluteBoundingBox")
            THEN [dimensions |-> [width |-> Get(bounds, "width", 0),
                                  height |-> Get(bounds, "height", 0)]]
            ELSE EmptyDict)
        @@ (IF Get(node.metadata, "item_spacing", 0) # 0
            THEN [spacing |-> node.metadata.item_spacing] ELSE EmptyDict)
      Built(kids) ==
        Flatten([i \in 1..Len(kids) |->
                   build_concise_node(kids[i], depth + 1, seen_next, comp_map)])
      children ==
        IF Len(node.children) > CONCISE_COLLAPSE_OVER
        THEN IF \A i \in 1..Len(node.children) : node.children[i].name = node.children[1].name
             THEN << RepeatedPattern(node.children) >>
             ELSE Built(SubSeq(node.children, 1, CONCISE_SHOWN_OF_MANY))
                  \o << Truncated(node.children) >>
        ELSE Built(shown_children(node.children))
  IN IF depth > CONCISE_MAX_DEPTH THEN <<>>
     ELSE IF ~should_include_node(node, depth, comp_map) THEN <<>>
     ELSE IF seen_count > CONCISE_PATTERN_LIMIT THEN <<>>
     ELSE IF node.children # <<>> /\ children # <<>>
     THEN << node_info @@ [children |-> children] >>
     ELSE << node_info >>

\* build_concise_node(layout_tree) or {'error': ...}
_build_concise_layout_structure(layout_tree, components) ==
  LET OrError(built) ==
        IF built = <<>> THEN [error |-> "Failed to build layout structure"] ELSE built[1]
  IN OrError(build_concise_node(layout_tree, 0, <<>>, ConciseCompMap(components)))

(***************************************************************************)
(* Recursion depth of the stages: the number of nested calls of the        *)
(* recursive function of each stage                                        *)
(***************************************************************************)
RECURSIVE FilterDepth(_, _)
FilterDepth(node, max_depth) ==
  IF ~Truthy(node) \/ ~IsDict(node) THEN 1
  ELSE IF Has(node, "children") /\ (max_depth = NoDepth \/ max_depth > 0)
  THEN LET ok == SelectSeq(node.children, LAMBDA c : IsDict(c) /\ Get(c, "visible", TRUE))
           next_depth == next_budget(max_depth)
       IN 1 + MaxSeq([i \in 1..Len(ok) |-> FilterDepth(ok[i], next_depth)])
  ELSE 1

RECURSIVE ProcessDepth(_)
ProcessDepth(figma_node) ==
  LET valid_children == SelectSeq(Get(figma_node, "children", <<>>), IsDict)
  IN 1 + MaxSeq([i \in 1..Len(valid_children) |-> ProcessDepth(valid_children[i])])

\* _map_node_recursive, extract_components and _get_all_nodes all descend
\* into every child of a LayoutNode
RECURSIVE TreeDepth(_)
TreeDepth(node) ==
  1 + MaxSeq([i \in 1..Len(node.children) |-> TreeDepth(node.children[i])])

(***************************************************************************)
(* Inputs: the raw nodes a caller passes                                   *)
(***************************************************************************)
\* bounds of the model
MaxChain == 9
MaxMixed == 4
MaxKids == 3
RecursionLimit == 7
MaxBudget == 2
MaxWide == 21
MaxCalls == 2

Box(x, y, w, h) == [x |-> x, y |-> y, width |-> w, height |-> h]

Frame(id, name, kids) == [id |-> id, name |-> name, type |-> "FRAME", children |-> kids]

\* a chain of single-child frames, names[i] being the name at level i
RECURSIVE ChainOf(_, _)
ChainOf(names, level) ==
  Frame("c" \o ToString(level), names[1],
        IF Len(names) = 1 THEN <<>> ELSE << ChainOf(Tail(names), level + 1) >>)

PlainChains == {ChainOf([i \in 1..n |-> "Frame"], 1) : n \in 1..MaxChain}

CardChains == {ChainOf([i \in 1..n |-> "Card"], 1) : n \in 1..MaxChain}

ChainNames == {"Frame", "Card"}

MixedChains == {ChainOf(ns, 1) : ns \in UNION {[1..n -> ChainNames] : n \in 2..MaxMixed}}

\* a root with two children that have one child each
SmallTrees ==
  {Frame("t", ns[1], << Frame("t1", ns[2], << Frame("t11", ns[4], <<>>) >>),
                        Frame("t2", ns[3], << Frame("t21", ns[5], <<>>) >>) >>) :
     ns \in [1..5 -> ChainNames]}

\* children without auto layout: the places <<x, y>> a child may take, with
\* y at 0, within the tolerance (4, 5) and beyond it (6)
KidSpots == {<<0, 0>>, <<10, 0>>, <<0, 4>>, <<10, 5>>, <<0, 6>>}
KidNames == << "Item", "Tab", "Item", "Tab", "Item", "Tab" >>

Kid(i, x, y) == [id |-> "k" \o ToString(i), name |-> KidNames[i], type |-> "RECTANGLE",
                 absoluteBoundingBox |-> Box(x, y, 30, 20)]

KidSeqs == UNION {[1..n -> KidSpots] : n \in 1..MaxKids}

RowRootNames == {"Root", "Panel"}

RowParent(name, kids) ==
  [id |-> "r", name |-> name, type |-> "FRAME",
   absoluteBoundingBox |-> Box(0, 0, 400, 300), children |-> kids]

RowInputs ==
  {RowParent(nm, [i \in 1..Len(ps) |-> Kid(i, ps[i][1], ps[i][2])]) :
     nm \in RowRootNames, ps \in KidSeqs}

\* the rows of the specification's example, and a drifting row
FixedRowInputs ==
  {RowParent("Root", [i \in 1..Len(ys) |-> Kid(i, 10 * i, ys[i])]) :
     ys \in {<<0, 0, 0, 50, 50>>, <<50, 0, 50, 0, 0>>, <<0, 4, 8>>, <<8, 4, 0>>}}

\* one node whose name, type, geometry, paints and text child vary, as
\* _identify_component reads them
IdentNames == {"Submit Button", "Box", "Email input"}
IdentSizes == {<<20, 20>>, <<100, 40>>, <<200, 36>>, <<200, 2>>}
IdentKinds == {[type |-> "FRAME"], [type |-> "RECTANGLE"],
               [type |-> "INSTANCE", componentId |-> "comp:1"],
               [type |-> "INSTANCE", componentId |-> "comp:1",
                variantProperties |-> [state |-> "Disabled"]],
               [type |-> "INSTANCE", componentId |-> "comp:1",
                variantProperties |-> [type |-> "Button"]]}

SolidPaint(r, g, b) == [type |-> "SOLID", color |-> [r |-> r, g |-> g, b |-> b]]

TextNode(id, name, characters) ==
  [id |-> id, name |-> name, type |-> "TEXT", characters |-> characters]

IdentNode(name, kind, size, has_fill, has_stroke, has_text) ==
  [id |-> "n", name |-> name,
   absoluteBoundingBox |-> Box(0, 0, size[1], size[2]),
   children |-> IF has_text THEN << TextNode("n1", "Label", "hello") >> ELSE <<>>]
  @@ kind
  @@ (IF has_fill THEN [fills |-> << SolidPaint(0, 50, 100) >>] ELSE EmptyDict)
  @@ (IF has_stroke THEN [strokes |-> << SolidPaint(100, 0, 0) >>] ELSE EmptyDict)

IdentInputs ==
  {IdentNode(nm, kd, sz, f, st, tx) :
     nm \in IdentNames, kd \in IdentKinds, sz \in IdentSizes,
     f \in BOOLEAN, st \in BOOLEAN, tx \in BOOLEAN}

\* the "Login Form" frame: a label, a stroked frame of 200x36, a label, a
\* stroked frame of 200x36 and the filled frame "Sign In" of 100x40 with corner
\* radius 4 and one text child; spots[i] is <<x, y>> of the i-th child
LoginStroked(id, name, spot) ==
  [id |-> id, name |-> name, type |-> "FRAME",
   absoluteBoundingBox |-> Box(spot[1], spot[2], 200, 36),
   strokes |-> << SolidPaint(0, 0, 0) >>]

LoginLabel(id, characters, spot) ==
  TextNode(id, characters, characters)
  @@ [absoluteBoundingBox |-> Box(spot[1], spot[2], 60, 16)]

LoginForm(spots) ==
  [id |-> "r", name |-> "Login Form", type |-> "FRAME",
   absoluteBoundingBox |-> Box(0, 0, 320, 300),
   children |->
     << LoginLabel("t1", "Email", spots[1]),
        LoginStroked("i1", "Frame 1", spots[2]),
        LoginLabel("t2", "Password", spots[3]),
        LoginStroked("i2", "Frame 2", spots[4]),
        [id |-> "b", name |-> "Sign In", type |-> "FRAME",
         absoluteBoundingBox |-> Box(spots[5][1], spots[5][2], 100, 40),
         fills |-> << SolidPaint(0, 50, 100) >>, cornerRadius |-> 4,
         children |-> << LoginLabel("bt", "Sign In", << spots[5][1] + 20, spots[5][2] + 12 >>) >>] >>]

\* the five children stacked, one per row
LoginStacked == << <<20, 20>>, <<20, 40>>, <<20, 90>>, <<20, 110>>, <<20, 160>> >>

\* each label on the row of its frame
LoginBeside == << <<20, 20>>, <<100, 20>>, <<20, 70>>, <<100, 70>>, <<20, 120>> >>

LoginInputs == {LoginForm(LoginStacked), LoginForm(LoginBeside)}

\* inputs that are not a usable node
NotADict == {[pytype |-> "NoneType", truthy |-> FALSE], [pytype |-> "list", truthy |-> FALSE],
             [pytype |-> "list", truthy |-> TRUE], [pytype |-> "str", truthy |-> TRUE],
             [pytype |-> "int", truthy |-> TRUE]}

Blob(kind, strlen) == [blob |-> kind, strlen |-> strlen]

DegenerateInputs ==
  NotADict \cup {EmptyDict, [reactions |-> Blob("list", 40)],
                 [reactions |-> Blob("list", 40), gridStyleId |-> "S:1"],
                 [children |-> << [pytype |-> "int", truthy |-> TRUE] >>]}

\* nodes with explicit or inferred auto layout
AutoModes == {[layoutMode |-> "HORIZONTAL", itemSpacing |-> 8],
              [layoutMode |-> "VERTICAL"],
              [layoutMode |-> "GRID", layoutGrids |-> << [pattern |-> "COLUMNS"] >>],
              [layoutMode |-> "NONE"],
              [inferredAutoLayout |-> [layoutMode |-> "VERTICAL", itemSpacing |-> 4]],
              [inferredAutoLayout |-> [layoutMode |-> "NONE"]],
              [inferredAutoLayout |-> [itemSpacing |-> 4]]}

AutoKids == {<<>>,
             << [pytype |-> "str", truthy |-> TRUE] >>,
             << Kid(1, 0, 0), Kid(2, 10, 6) >>,
             << Kid(1, 10, 6), [pytype |-> "int", truthy |-> TRUE], Kid(2, 0, 0) >>,
             << Kid(1, 0, 0) @@ [visible |-> FALSE], Kid(2, 10, 0) >>,
             << Kid(1, 0, 0), Kid(2, 100, 0), Kid(3, 0, 50), Kid(4, 100, 50) >>}

AutoInputs == {RowParent("Root", kids) @@ mode : mode \in AutoModes, kids \in AutoKids}

\* raw nodes for direct calls of the filter: attributes that are denylisted,
\* denylisted and essential (gridStyleId, primaryAxisSizingMode), simplified
\* or hinted, on three levels, with an invisible and a non-mapping child
FilterDecor ==
  {EmptyDict,
   [reactions |-> Blob("list", 40), gridStyleId |-> "S:1"],
   [constraints |-> EmptyDict],
   [constraints |-> [horizontal |-> "RIGHT", vertical |-> "BOTTOM"],
    primaryAxisSizingMode |-> "FIXED"],
   [layoutMode |-> "HORIZONTAL", transitionNodeID |-> "1:2"]}

FilterNode(id, name, type, decor, kids) ==
  [id |-> id, name |-> name, type |-> type] @@ decor
  @@ (IF kids = <<>> THEN EmptyDict ELSE [children |-> kids])

HiddenKid == [id |-> "f2", name |-> "Box", type |-> "FRAME", visible |-> FALSE,
              gridStyleId |-> "S:2"]

\* attributes that are malformed: a list of paints, strokes or grids with an
\* entry that is a number, constraints that are None, a style that is a
\* number or a string
NotAMapping == [pytype |-> "int", truthy |-> TRUE]

MalformedDecor ==
  {[fills |-> << NotAMapping >>],
   [fills |-> << SolidPaint(0, 50, 100), NotAMapping >>],
   [fills |-> << [type |-> "IMAGE"], NotAMapping >>],
   [strokes |-> << [visible |-> FALSE], NotAMapping >>],
   [strokes |-> << SolidPaint(100, 0, 0), NotAMapping >>],
   [layoutGrids |-> << [pattern |-> "COLUMNS"], NotAMapping >>],
   [constraints |-> [pytype |-> "NoneType", truthy |-> FALSE]],
   [style |-> NotAMapping],
   [style |-> [pytype |-> "str", truthy |-> TRUE]]}

\* a node with a malformed attribute, alone, as the visible child and as the
\* invisible child of a frame
MalformedInputs ==
  {FilterNode("f", "Box", "FRAME", d, <<>>) : d \in MalformedDecor}
  \cup {FilterNode("f", "Box", "FRAME", EmptyDict,
                   << FilterNode("f1", "Box", "FRAME", d, <<>>) @@ hidden >>) :
          d \in MalformedDecor, hidden \in {EmptyDict, [visible |-> FALSE]}}

\* children lists with a visible mapping of which the filter keeps nothing
EmptyKids ==
  {<< EmptyDict >>,
   << [reactions |-> Blob("list", 40)], FilterNode("f3", "Box", "FRAME", EmptyDict, <<>>) >>,
   << [children |-> << FilterNode("f4", "Box", "FRAME", EmptyDict, <<>>) >>] >>}

FilterInputs ==
  {FilterNode("f", nm, ty, d, <<>>) :
     nm \in {"btn", "Box"}, ty \in {"FRAME", "VECTOR"}, d \in FilterDecor}
  \cup {FilterNode("f", nm, "FRAME", d, << FilterNode("f1", "Box", ty, d1, <<>>) >>) :
          nm \in {"btn", "Box"}, ty \in {"FRAME", "VECTOR"}, d \in FilterDecor,
          d1 \in FilterDecor}
  \cup {FilterNode("f", "Box", "FRAME", d,
                   << FilterNode("f1", "Box", "FRAME", d1,
                                 << FilterNode("f11", "btn", "VECTOR", d2, <<>>) >>),
                      HiddenKid >>) :
          d \in FilterDecor, d1 \in FilterDecor, d2 \in FilterDecor}
  \cup {FilterNode("f", "Box", "FRAME", d,
                   << [pytype |-> "str", truthy |-> TRUE],
                      FilterNode("f1", "Box", "FRAME", d, <<>>) >>) : d \in FilterDecor}
  \cup {FilterNode("f", "Box", "FRAME", d,
                   << FilterNode("f1", "Box", "FRAME", EmptyDict, kids),
                      FilterNode("f2", "btn", "FRAME", d, <<>>) >>) :
          d \in FilterDecor, kids \in EmptyKids}
  \cup {[id |-> "f", children |-> kids] : kids \in EmptyKids}
  \cup MalformedInputs \cup NotADict

\* a root with up to MaxWide children in one row, all named alike or each by
\* its own name, with and without auto layout
WideKid(i, alike) ==
  [id |-> "w" \o ToString(i), name |-> IF alike THEN "Item" ELSE "Item " \o ToString(i),
   type |-> "RECTANGLE", absoluteBoundingBox |-> Box(10 * i, 0, 8, 8)]

WideModes == {EmptyDict, [layoutMode |-> "HORIZONTAL", itemSpacing |-> 8]}

WideInputs ==
  {RowParent("Root", [i \in 1..n |-> WideKid(i, alike)]) @@ mode :
     n \in 0..MaxWide, alike \in BOOLEAN, mode \in WideModes}

\* a root of type GROUP or FRAME with five and six unclassified children
GroupInputs ==
  {[RowParent("Root", [i \in 1..n |-> WideKid(i, TRUE)]) EXCEPT !.type = ty] :
     n \in {PURE_CONTAINER_CHILDREN, PURE_CONTAINER_CHILDREN + 1}, ty \in {"GROUP", "FRAME"}}

\* a root of type GROUP or FRAME with six unclassified children, the first of
\* which holds a frame named "Card"
NestedCardInputs ==
  {[RowParent("Root",
              [i \in 1..(PURE_CONTAINER_CHILDREN + 1) |->
                 IF i = 1
                 THEN WideKid(i, TRUE) @@ [children |-> << Frame("c", "Card", <<>>) >>]
                 ELSE WideKid(i, TRUE)]) EXCEPT !.type = ty] : ty \in {"GROUP", "FRAME"}}

\* single nodes without a telling name, paint or child, of the sizes
\* _detect_by_style tells apart
StyleSizes == {<<20, 20>>, <<21, 20>>, <<10, 10>>, <<9, 9>>, <<50, 50>>, <<51, 51>>,
               <<200, 2>>, <<2, 200>>, <<100, 2>>, <<101, 2>>, <<200, 3>>}

StyleInputs ==
  {IdentNode("Box", [type |-> ty], sz, FALSE, FALSE, FALSE) :
     ty \in {"RECTANGLE", "FRAME", "TEXT"}, sz \in StyleSizes}

\* the raw nodes handed to an analyzer that is called more than once: short
\* chains, a chain deeper than the recursion limit, a node on which the
\* mapper raises, and the inputs that are not a usable node
TwiceInputs ==
  {ChainOf([i \in 1..n |-> nm], 1) : n \in {1, 2, RecursionLimit + 1}, nm \in ChainNames}
  \cup {IdentNode("Email input",
                  [type |-> "INSTANCE", componentId |-> "comp:1",
                   variantProperties |-> [state |-> "Disabled"]],
                  <<200, 36>>, FALSE, TRUE, TRUE)}
  \cup DegenerateInputs
  \cup {FilterNode("f", "Box", "FRAME", [style |-> NotAMapping], <<>>)}

\* the raw nodes handed to analyze_for_llm
LLMInputs ==
  WideInputs \cup PlainChains \cup CardChains \cup SmallTrees \cup IdentInputs
  \cup DegenerateInputs \cup MalformedInputs

\* the depth budgets of a direct call: None and 0..MaxBudget
Budgets == {NoDepth} \cup 0..MaxBudget

PipelineInputs ==
  PlainChains \cup CardChains \cup MixedChains \cup SmallTrees \cup RowInputs
  \cup FixedRowInputs \cup IdentInputs \cup DegenerateInputs \cup AutoInputs \cup GroupInputs
  \cup MalformedInputs \cup LoginInputs \cup NestedCardInputs \cup StyleInputs

(***************************************************************************)
(* universal_figma_analyzer.py :                                           *)
(*   UniversalFigmaAnalyzer.analyze_with_layout_reconstruction             *)
(* pc is the step the call is at; the stages run in the order of the code. *)
(***************************************************************************)
VARIABLES
  pc,                \* "filter", "reconstruct", "map", "summarize", "done", "raised";
                     \* "filtered" after a direct call of the filter
  raw,               \* the argument node
  max_depth,         \* the depth budget handed to the filter: NoDepth for None
  filtered,          \* filtered_node
  layout_tree,       \* layout_tree: <<>> for None, << LayoutNode >> otherwise
  modus_components,  \* modus_components
  component_map,     \* component_map
  llm_summary,       \* llm_summary: <<>> for None
  compact_summary,   \* compact_summary
  result,            \* the returned mapping
  layout_stats,      \* self.layout_reconstructor.stats
  mapping_stats,     \* self.component_mapper.stats
  undetected_nodes,  \* self.component_mapper.undetected_nodes
  stage_depth,       \* recursion depth each stage reached
  earlier_calls,     \* the calls made before on this analyzer: argument and outcome
  first_mapping,     \* what the first of two runs of the mapper returned: <<>> for none
  filter_warnings    \* the warnings the filter has printed

vars == << pc, raw, max_depth, filtered, layout_tree, modus_components, component_map, llm_summary,
           compact_summary, result, layout_stats, mapping_stats, undetected_nodes,
           stage_depth, earlier_calls, first_mapping, filter_warnings >>

UNDETECTED_LIMIT == 1000

ZeroMappingStats == [total_components |-> 0, detected_by_name |-> 0,
                     detected_by_structure |-> 0, detected_by_style |-> 0, undetected |-> 0]

ZeroDepth == [filter |-> 0, reconstruct |-> 0, map |-> 0, summarize |-> 0]

\* the analyzer after __init__, called with node
InitWith(Inputs, budgets) ==
  /\ raw \in Inputs
  /\ max_depth \in budgets
  /\ pc = "filter"
  /\ filtered = EmptyDict
  /\ layout_tree = <<>>
  /\ modus_components = <<>>
  /\ component_map = EmptyDict
  /\ llm_summary = <<>>
  /\ compact_summary = EmptyDict
  /\ result = EmptyDict
  /\ layout_stats = ZeroStats
  /\ mapping_stats = ZeroMappingStats
  /\ undetected_nodes = <<>>
  /\ stage_depth = ZeroDepth
  /\ earlier_calls = <<>>
  /\ first_mapping = <<>>
  /\ filter_warnings = <<>>

\* analyze_with_layout_reconstruction(node): line 176 gives the filter no
\* depth budget
Init == InitWith(PipelineInputs, {NoDepth})

\* filter.filter_figma_data(node, max_depth) called on its own
InitFilter == InitWith(FilterInputs, Budgets)

\* the depth of recursion the stage at pc needs
NeededDepth ==
  CASE pc = "filter" -> FilterDepth(raw, NoDepth)
    [] pc = "reconstruct" -> IF Truthy(filtered) THEN ProcessDepth(filtered) ELSE 0
    [] pc = "map" -> TreeDepth(layout_tree[1])
    [] pc = "summarize" -> TreeDepth(layout_tree[1])
    [] OTHER -> 0

\* Step 0 (lines 175-177)
FilterStage ==
  /\ pc = "filter"
  /\ NeededDepth <= RecursionLimit
  /\ ~FilterRaises(raw, NoDepth)
  /\ filtered' = filter_figma_data(raw, NoDepth)
  /\ filter_warnings' = filter_warnings \o FilterWarnings(raw, NoDepth)
  /\ stage_depth' = [stage_depth EXCEPT !.filter = NeededDepth]
  /\ pc' = "reconstruct"
  /\ UNCHANGED << earlier_calls, first_mapping, raw, max_depth, layout_tree, modus_components,
                  component_map, llm_summary, compact_summary, result, layout_stats,
                  mapping_stats, undetected_nodes >>

\* Step 0 when a call of line 160 raises: the exception leaves the analyzer.
\* The warnings printed before it are some of those of the whole traversal.
FilterStageRaises ==
  /\ pc = "filter"
  /\ NeededDepth <= RecursionLimit
  /\ FilterRaises(raw, NoDepth)
  /\ \E k \in 0..Len(FilterWarnings(raw, NoDepth)) :
       filter_warnings' = filter_warnings \o SubSeq(FilterWarnings(raw, NoDepth), 1, k)
  /\ pc' = "raised"
  /\ UNCHANGED << earlier_calls, first_mapping, raw, max_depth, filtered, layout_tree,
                  modus_components, component_map, llm_summary, compact_summary, result,
                  layout_stats, mapping_stats, undetected_nodes, stage_depth >>

\* FigmaDataFilter.filter_figma_data(raw, max_depth), called on its own
FilterCall ==
  /\ pc = "filter"
  /\ ~FilterRaises(raw, max_depth)
  /\ filtered' = filter_figma_data(raw, max_depth)
  /\ filter_warnings' = filter_warnings \o FilterWarnings(raw, max_depth)
  /\ pc' = "filtered"
  /\ UNCHANGED << earlier_calls, first_mapping, raw, max_depth, layout_tree, modus_components,
                  component_map, llm_summary, compact_summary, result, layout_stats,
                  mapping_stats, undetected_nodes, stage_depth >>

\* the direct call when a call of line 160 raises
FilterCallRaises ==
  /\ pc = "filter"
  /\ FilterRaises(raw, max_depth)
  /\ \E k \in 0..Len(FilterWarnings(raw, max_depth)) :
       filter_warnings' = filter_warnings \o SubSeq(FilterWarnings(raw, max_depth), 1, k)
  /\ pc' = "raised"
  /\ UNCHANGED << earlier_calls, first_mapping, raw, max_depth, filtered, layout_tree,
                  modus_components, component_map, llm_summary, compact_summary, result,
                  layout_stats, mapping_stats, undetected_nodes, stage_depth >>

\* Step 1 (line 188) when reconstruct_layout returns a tree
ReconstructStage ==
  /\ pc = "reconstruct"
  /\ NeededDepth <= RecursionLimit
  /\ reconstruct_layout(filtered) # <<>>
  /\ LET r == reconstruct_layout(filtered)[1]
     IN /\ layout_tree' = << r.ln >>
        /\ layout_stats' = AddStats(layout_stats, r.st)
  /\ stage_depth' = [stage_depth EXCEPT !.reconstruct = NeededDepth]
  /\ pc' = "map"
  /\ UNCHANGED << earlier_calls, first_mapping, filter_warnings, raw, max_depth, filtered, modus_components, component_map, llm_summary,
                  compact_summary, result, mapping_stats, undetected_nodes >>

\* lines 190-195: reconstruct_layout returned None
FailedToReconstruct ==
  /\ pc = "reconstruct"
  /\ reconstruct_layout(filtered) = <<>>
  /\ result' = [error |-> "Failed to reconstruct layout", components |-> <<>>,
                layout_tree |-> <<>>]
  /\ pc' = "done"
  /\ UNCHANGED << earlier_calls, first_mapping, filter_warnings, raw, max_depth, filtered, layout_tree, modus_components, component_map, llm_summary,
                  compact_summary, layout_stats, mapping_stats, undetected_nodes,
                  stage_depth >>

\* what map_layout_to_components does to the mapper: the nodes are identified
\* in pre-order up to the first call that raises
MapVisit(tree) ==
  LET Visit(pre, idr) ==
        LET raising == {i \in 1..Len(pre) : idr[i].kind = "raised"}
            last == IF raising = {} THEN Len(pre)
                    ELSE CHOOSE i \in raising : \A j \in raising : i <= j
            Count(tier) == Cardinality({i \in 1..last : idr[i].tier = tier})
            misses == SelectIdx(pre, {i \in 1..Len(pre) : i <= last /\ idr[i].kind = "none"})
        IN [raises |-> raising # {},
            stats |-> [total_components |-> last,
                       detected_by_name |-> Count("detected_by_name"),
                       detected_by_structure |-> Count("detected_by_structure"),
                       detected_by_style |-> Count("detected_by_style"),
                       undetected |-> Count("undetected")],
            undetected |-> [j \in 1..Len(misses) |-> UndetectedEntry(pre[misses[j]])]]
      Identify(pre) == Visit(pre, [i \in 1..Len(pre) |-> _identify_component(pre[i])])
  IN Identify(Preorder(tree))

AddMappingStats(a, b) == [k \in DOMAIN a |-> a[k] + b[k]]

\* the list with every entry appended, whatever its length
AppendUndetectedUnbounded(list, entries) == list \o entries

\* the list after the appends of lines 152-161
AppendUndetected(list, entries) ==
  LET room == IF Len(list) < UNDETECTED_LIMIT THEN UNDETECTED_LIMIT - Len(list) ELSE 0
  IN list \o SubSeq(entries, 1, IF Len(entries) < room THEN Len(entries) ELSE room)

\* Step 2 (line 198)
MapStage ==
  /\ pc = "map"
  /\ NeededDepth <= RecursionLimit
  /\ LET Leave(v) ==
           /\ ~v.raises
           /\ modus_components' = _map_node_recursive(layout_tree[1])
           /\ mapping_stats' = AddMappingStats(mapping_stats, v.stats)
           /\ undetected_nodes' = AppendUndetected(undetected_nodes, v.undetected)
     IN Leave(MapVisit(layout_tree[1]))
  /\ stage_depth' = [stage_depth EXCEPT !.map = NeededDepth]
  /\ pc' = "summarize"
  /\ UNCHANGED << earlier_calls, first_mapping, filter_warnings, raw, max_depth, filtered, layout_tree, component_map, llm_summary, compact_summary,
                  result, layout_stats >>

\* Step 2 when _extract_properties raises: the exception leaves the call
MapStageRaises ==
  /\ pc = "map"
  /\ NeededDepth <= RecursionLimit
  /\ LET Leave(v) ==
           /\ v.raises
           /\ mapping_stats' = AddMappingStats(mapping_stats, v.stats)
           /\ undetected_nodes' = AppendUndetected(undetected_nodes, v.undetected)
     IN Leave(MapVisit(layout_tree[1]))
  /\ pc' = "raised"
  /\ UNCHANGED << earlier_calls, first_mapping, filter_warnings, raw, max_depth, filtered, layout_tree, modus_components, component_map, llm_summary,
                  compact_summary, result, layout_stats, stage_depth >>

\* comp.to_dict()
RECURSIVE to_dict(_)
to_dict(comp) == [comp EXCEPT !.children = [i \in 1..Len(comp.children) |-> to_dict(comp.children[i])]]

\* {comp.original_node_id: comp.to_dict() for comp in modus_components}
ComponentMapOf(components) ==
  LET ids == {components[i].original_node_id : i \in 1..Len(components)}
  IN [id \in ids |->
        to_dict(components[CHOOSE i \in 1..Len(components) :
                             /\ components[i].original_node_id = id
                             /\ \A j \in 1..Len(components) :
                                  components[j].original_node_id = id => j <= i])]

\* Steps 3 to 7 (lines 201-236). Steps 5 and 6 (page_pattern and
\* implementation_guide, lines 209-217) and the filtering statistics add keys
\* of their own to the returned mapping and change none of the values below;
\* result holds the other keys.
SummarizeStage ==
  /\ pc = "summarize"
  /\ NeededDepth <= RecursionLimit
  /\ LET cm == ComponentMapOf(modus_components)
         ls == create_llm_summary(layout_tree[1], cm, DEFAULT_MAX_DEPTH, 0, TRUE)
         cs == create_compact_llm_summary(layout_tree[1], cm)
     IN /\ component_map' = cm
        /\ llm_summary' = ls
        /\ compact_summary' = cs
        /\ result' = [llm_summary |-> ls,
                      compact_summary |-> cs,
                      components |-> [i \in 1..Len(modus_components) |-> to_dict(modus_components[i])],
                      statistics |-> [layout |-> layout_stats,
                                      mapping |-> mapping_stats @@ [undetected_nodes |-> undetected_nodes]]]
  /\ stage_depth' = [stage_depth EXCEPT !.summarize = NeededDepth]
  /\ pc' = "done"
  /\ UNCHANGED << earlier_calls, first_mapping, filter_warnings, raw, max_depth, filtered, layout_tree, modus_components, layout_stats, mapping_stats,
                  undetected_nodes >>

\* the interpreter raises RecursionError in the stage that nests deeper than
\* its recursion limit
RaiseRecursionError ==
  /\ pc \in {"filter", "reconstruct", "map", "summarize"}
  /\ NeededDepth > RecursionLimit
  /\ stage_depth' = [stage_depth EXCEPT ![pc] = RecursionLimit + 1]
  /\ pc' = "raised"
  /\ UNCHANGED << earlier_calls, first_mapping, filter_warnings, raw, max_depth, filtered, layout_tree, modus_components, component_map, llm_summary,
                  compact_summary, result, layout_stats, mapping_stats, undetected_nodes >>

Next ==
  \/ FilterStage
  \/ FilterStageRaises
  \/ ReconstructStage
  \/ FailedToReconstruct
  \/ MapStage
  \/ MapStageRaises
  \/ SummarizeStage
  \/ RaiseRecursionError

Spec == Init /\ [][Next]_vars

NextFilter == FilterCall \/ FilterCallRaises

SpecFilter == InitFilter /\ [][NextFilter]_vars

(***************************************************************************)
(* universal_figma_analyzer.py : UniversalFigmaAnalyzer.analyze_for_llm    *)
(* Steps 1 and 2 are the filter, reconstruct and map stages above.         *)
(***************************************************************************)
InitLLM == InitWith(LLMInputs, {NoDepth})

\* lines 261-265: reconstruct_layout returned None
FailedToAnalyze ==
  /\ pc = "reconstruct"
  /\ reconstruct_layout(filtered) = <<>>
  /\ result' = [error |-> "Failed to analyze layout",
                suggestion |-> "Check if the Figma data is valid"]
  /\ pc' = "done"
  /\ UNCHANGED << earlier_calls, first_mapping, filter_warnings, raw, max_depth, filtered, layout_tree, modus_components, component_map, llm_summary,
                  compact_summary, layout_stats, mapping_stats, undetected_nodes,
                  stage_depth >>

\* Steps 3 to 8 (lines 269-311).  Steps 4 to 6 and the list of undetected
\* components add keys of their own to the returned mapping (components,
\* undetected_components, implementation, modus_imports, and three keys of
\* page_info) and change none of the values below; result holds the other
\* keys.
ConciseStage ==
  /\ pc = "summarize"
  /\ result' = [page_info |-> [name |-> Get(raw, "name", "Untitled"),
                               component_count |-> Len(modus_components),
                               undetected_count |-> mapping_stats.undetected],
                layout_structure |->
                  _build_concise_layout_structure(layout_tree[1], modus_components),
                mapping_summary |-> [total_nodes_analyzed |-> mapping_stats.total_components,
                                     successfully_mapped |-> Len(modus_components),
                                     undetected |-> mapping_stats.undetected]]
  /\ pc' = "done"
  /\ UNCHANGED << earlier_calls, first_mapping, filter_warnings, raw, max_depth, filtered, layout_tree, modus_components, component_map, llm_summary,
                  compact_summary, layout_stats, mapping_stats, undetected_nodes,
                  stage_depth >>

NextLLM ==
  \/ FilterStage
  \/ FilterStageRaises
  \/ ReconstructStage
  \/ FailedToAnalyze
  \/ MapStage
  \/ MapStageRaises
  \/ ConciseStage
  \/ RaiseRecursionError

SpecLLM == InitLLM /\ [][NextLLM]_vars

(***************************************************************************)
(* One UniversalFigmaAnalyzer called several times.  The locals of the     *)
(* call start afresh; self.layout_reconstructor and self.component_mapper  *)
(* are made once, in __init__ (lines 161-162), and keep their stats and    *)
(* undetected_nodes from call to call.                                     *)
(***************************************************************************)
InitTwice == InitWith(TwiceInputs, {NoDepth})

\* the call has returned or raised, and the caller calls again
CallAgain ==
  /\ pc \in {"done", "raised"}
  /\ Len(earlier_calls) + 1 < MaxCalls
  /\ earlier_calls' = Append(earlier_calls,
                             [raw |-> raw, returned |-> pc = "done", result |-> result])
  /\ raw' \in TwiceInputs
  /\ pc' = "filter"
  /\ filtered' = EmptyDict
  /\ layout_tree' = <<>>
  /\ modus_components' = <<>>
  /\ component_map' = EmptyDict
  /\ llm_summary' = <<>>
  /\ compact_summary' = EmptyDict
  /\ result' = EmptyDict
  /\ stage_depth' = ZeroDepth
  /\ UNCHANGED << max_depth, layout_stats, mapping_stats, undetected_nodes, first_mapping,
                  filter_warnings >>

NextTwice == Next \/ CallAgain

SpecTwice == InitTwice /\ [][NextTwice]_vars

(***************************************************************************)
(* map_layout_to_components called a second time, by the holder of the     *)
(* mapper, on the layout tree it has just mapped.  The call reads the      *)
(* layout nodes and builds new ModusComponent objects (lines 121-164); it  *)
(* assigns to no attribute of a layout node.  The counters of self.stats   *)
(* and self.undetected_nodes go on from where the first run left them.     *)
(***************************************************************************)
MapAgain ==
  /\ pc = "summarize"
  /\ first_mapping = <<>>
  /\ LET Leave(v) ==
           /\ ~v.raises
           /\ first_mapping' = << modus_components >>
           /\ modus_components' = _map_node_recursive(layout_tree[1])
           /\ mapping_stats' = AddMappingStats(mapping_stats, v.stats)
           /\ undetected_nodes' = AppendUndetected(undetected_nodes, v.undetected)
     IN Leave(MapVisit(layout_tree[1]))
  /\ UNCHANGED << pc, earlier_calls, filter_warnings, raw, max_depth, filtered, layout_tree,
                  component_map, llm_summary, compact_summary, result, layout_stats,
                  stage_depth >>

NextRemap == Next \/ MapAgain

SpecRemap == Init /\ [][NextRemap]_vars

(***************************************************************************)
(* The pipeline on single nodes whose name varies: names that carry the    *)
(* modus-wc- convention and names that match one or two rules of           *)
(* NAME_MAPPINGS.                                                          *)
(***************************************************************************)
NameSamples ==
  {"modus-wc-foo", "Modus-WC-Button", "my modus-wc-button-primary x", "modus-x",
   "modus-wc- card", "Radio Button", "Number Input", "Numeric Field", "Text Area",
   "Text Field", "Side Navigation", "Side Navigation Bar", "Navigation Bar", "radio",
   "Button", "Input", "Box", "Sidebar Header", "Tab Panel", "Date Picker"}

NamedKinds == {[type |-> "FRAME"], [type |-> "RECTANGLE"],
               [type |-> "INSTANCE", componentId |-> "comp:1"]}

NamedInputs ==
  {IdentNode(nm, kd, <<20, 12>>, FALSE, FALSE, FALSE) : nm \in NameSamples, kd \in NamedKinds}
  \cup TwiceInputs

InitNames == InitWith(NamedInputs, {NoDepth})

SpecNames == InitNames /\ [][Next]_vars

(***************************************************************************)
(* LayoutReconstructor.reconstruct_layout called on its own, on a node the *)
(* filter has not seen: the children lists may hold entries that are no    *)
(* mappings.                                                               *)
(***************************************************************************)
ReconstructInputs ==
  AutoInputs \cup FixedRowInputs \cup {EmptyDict}
  \cup {RowParent("Root", << [RowParent("Inner", kids) EXCEPT !.id = "s"] @@ mode,
                             Kid(5, 0, 100) >>) :
          mode \in AutoModes, kids \in AutoKids}

InitReconstruct == InitWith(ReconstructInputs, {NoDepth})

\* reconstruct_layout(raw) returns a tree
ReconstructCall ==
  /\ pc = "filter"
  /\ reconstruct_layout(raw) # <<>>
  /\ LET r == reconstruct_layout(raw)[1]
     IN /\ layout_tree' = << r.ln >>
        /\ layout_stats' = AddStats(layout_stats, r.st)
  /\ pc' = "reconstructed"
  /\ UNCHANGED << earlier_calls, first_mapping, filter_warnings, raw, max_depth, filtered,
                  modus_components, component_map, llm_summary, compact_summary, result,
                  mapping_stats, undetected_nodes, stage_depth >>

\* reconstruct_layout(raw) returns None (lines 66-67)
ReconstructCallNone ==
  /\ pc = "filter"
  /\ reconstruct_layout(raw) = <<>>
  /\ pc' = "reconstructed"
  /\ UNCHANGED << earlier_calls, first_mapping, filter_warnings, raw, max_depth, filtered,
                  layout_tree, modus_components, component_map, llm_summary,
                  compact_summary, result, layout_stats, mapping_stats, undetected_nodes,
                  stage_depth >>

NextReconstruct == ReconstructCall \/ ReconstructCallNone

SpecReconstruct == InitReconstruct /\ [][NextReconstruct]_vars

(***************************************************************************)
(* An analyzer whose mapper has run before: earlier calls on a single      *)
(* unclassified frame have each added one to total_components and to       *)
(* undetected and one entry to undetected_nodes, up to a few entries below *)
(* or at the limit of 1000 (line 151).                                     *)
(***************************************************************************)
\* the entry a run on a single frame named "Frame" appends
EarlierEntry ==
  UndetectedEntry(reconstruct_layout(filter_figma_data(ChainOf(<< "Frame" >>, 1), NoDepth))[1].ln)

\* the numbers of earlier runs
EarlierRuns == (UNDETECTED_LIMIT - MaxKids)..(UNDETECTED_LIMIT + 1)

CapInputs ==
  {RowParent("Root", [i \in 1..n |-> WideKid(i, FALSE)]) : n \in 0..(MaxKids + 1)}
  \cup {ChainOf(ns, 1) : ns \in [1..3 -> ChainNames]}
  \cup TwiceInputs

InitCap ==
  /\ raw \in CapInputs
  /\ max_depth = NoDepth
  /\ pc = "filter"
  /\ filtered = EmptyDict
  /\ layout_tree = <<>>
  /\ modus_components = <<>>
  /\ component_map = EmptyDict
  /\ llm_summary = <<>>
  /\ compact_summary = EmptyDict
  /\ result = EmptyDict
  /\ layout_stats = ZeroStats
  /\ \E k \in EarlierRuns :
       /\ mapping_stats = [ZeroMappingStats EXCEPT !.total_components = k, !.undetected = k]
       /\ undetected_nodes =
            [i \in 1..(IF k < UNDETECTED_LIMIT THEN k ELSE UNDETECTED_LIMIT) |-> EarlierEntry]
  /\ stage_depth = ZeroDepth
  /\ earlier_calls = <<>>
  /\ first_mapping = <<>>
  /\ filter_warnings = <<>>

SpecCap == InitCap /\ [][Next]_vars

(***************************************************************************)
(* Properties                                                              *)
(***************************************************************************)
\* the nodes of a tree of mappings linked by "children"
RECURSIVE NodesOf(_)
NodesOf(node) ==
  {node} \cup UNION {NodesOf(node.children[i]) : i \in 1..Len(Get(node, "children", <<>>))}

\* every entry of every children list of the raw node is a mapping
RECURSIVE OnlyMappings(_)
OnlyMappings(node) ==
  \A i \in 1..Len(Get(node, "children", <<>>)) :
    IsDict(node.children[i]) /\ OnlyMappings(node.children[i])

\* len(json.dumps(node)) for the attributes of FilterInputs and of what the
\* filter writes: '{"k": v, "k": v}', a string in quotes, true and false
JsonBoolKeys == {"visible"}
JsonBlobKeys == {"reactions"}
JsonDictKeys == {"constraints"}

RECURSIVE JsonLen(_)
JsonLen(node) ==
  LET keys == SetToSeq(DOMAIN node)
      ListLen(list) ==
        IF list = <<>> THEN 2
        ELSE 2 + SumSeq([i \in 1..Len(list) |-> JsonLen(list[i])]) + 2 * (Len(list) - 1)
      ValueLen(k) ==
        IF k = "children" THEN ListLen(node[k])
        ELSE IF k \in JsonDictKeys THEN JsonLen(node[k])
        ELSE IF k \in JsonBlobKeys THEN node[k].strlen
        ELSE IF k \in JsonBoolKeys THEN (IF node[k] THEN 4 ELSE 5)
        ELSE Len(node[k]) + 2
  IN IF keys = <<>> THEN 2
     ELSE 2 + SumSeq([i \in 1..Len(keys) |-> Len(keys[i]) + 4 + ValueLen(keys[i])])
          + 2 * (Len(keys) - 1)

\* C1: on a chain of single-child nodes of any depth the pipeline terminates
\* and no stage nests more calls than the configured maximum depth allows
\* (the cap of the summarizer, which makes max_depth + 1 nested calls at most),
\* whatever the depth of the input.
C1_DepthBoundedByConfiguredMax ==
  \A stage \in DOMAIN stage_depth : stage_depth[stage] <= DEFAULT_MAX_DEPTH + 1

\* the attributes create_llm_summary gives a node of the summary
SummaryKeys == {"name", "layout", "component", "properties", "children"}

\* some entry of the summary carries an attribute that is not a description
\* of its node: a marker
RECURSIVE HasTruncationMarker(_)
HasTruncationMarker(summary) ==
  \/ DOMAIN summary \ SummaryKeys # {}
  \/ \E i \in 1..Len(Get(summary, "children", <<>>)) : HasTruncationMarker(summary.children[i])

\* C2: when the layout tree has nodes at or below the depth cap of the
\* hierarchical summary (more than max_depth levels), the summary exists and
\* carries an explicit truncation marker.
C2_TruncationIsMarked ==
  (pc = "done" /\ layout_tree # <<>> /\ TreeDepth(layout_tree[1]) > DEFAULT_MAX_DEPTH)
    => (llm_summary # <<>> /\ HasTruncationMarker(llm_summary[1]))

C4_FilteredNoLarger ==
  (pc = "filtered" /\ IsDict(raw) /\ raw \notin MalformedInputs /\ OnlyMappings(raw))
    => JsonLen(filtered) <= JsonLen(raw)

\* the components of a forest, at every level
RECURSIVE ForestComponents(_)
ForestComponents(components) ==
  UNION {{components[i]} \cup ForestComponents(components[i].children) :
           i \in 1..Len(components)}

RECURSIVE ForestSize(_)
ForestSize(components) ==
  SumSeq([i \in 1..Len(components) |-> 1 + ForestSize(components[i].children)])

\* <<node id, parent>> of every component of a forest, parent being << id >>
\* of the component it is a child of and <<>> at the top level
RECURSIVE ForestEdges(_, _)
ForestEdges(components, parent) ==
  UNION {{<< components[i].original_node_id, parent >>}
         \cup ForestEdges(components[i].children, << components[i].original_node_id >>) :
           i \in 1..Len(components)}

\* the places of a layout tree: sequences of child indices from the root
RECURSIVE Paths(_)
Paths(node) ==
  {<<>>} \cup UNION {{<< i >> \o p : p \in Paths(node.children[i])} :
                       i \in 1..Len(node.children)}

RECURSIVE NodeAt(_, _)
NodeAt(node, path) ==
  IF path = <<>> THEN node ELSE NodeAt(node.children[Head(path)], Tail(path))

ClassifiedPaths(tree) ==
  {p \in Paths(tree) : _identify_component(NodeAt(tree, p)).kind = "component"}

\* << id >> of the nearest proper ancestor of the place p among the places
\* cps, <<>> when there is none
NearestAncestor(tree, p, cps) ==
  LET above == {n \in 0..(Len(p) - 1) : SubSeq(p, 1, n) \in cps}
  IN IF above = {} THEN <<>>
     ELSE << NodeAt(tree, SubSeq(p, 1, CHOOSE n \in above : \A m \in above : m <= n)).id >>

C6_NearestClassifiedAncestor ==
  (pc \in {"summarize", "done"} /\ layout_tree # <<>>) =>
    LET tree == layout_tree[1]
        cps == ClassifiedPaths(tree)
    IN /\ ForestEdges(modus_components, <<>>)
            = {<< NodeAt(tree, p).id, NearestAncestor(tree, p, cps) >> : p \in cps}
       /\ ForestSize(modus_components) = Cardinality(cps)

\* a component nested under the component of an ancestor that is not the
\* parent of its node: the unclassified node between them is skipped
C6_Witness ==
  /\ pc = "done" /\ layout_tree # <<>>
  /\ \E p \in ClassifiedPaths(layout_tree[1]) :
       /\ Len(p) >= 2
       /\ SubSeq(p, 1, Len(p) - 1) \notin ClassifiedPaths(layout_tree[1])
       /\ NearestAncestor(layout_tree[1], p, ClassifiedPaths(layout_tree[1])) # <<>>
       /\ << NodeAt(layout_tree[1], p).id,
             NearestAncestor(layout_tree[1], p, ClassifiedPaths(layout_tree[1])) >>
            \in ForestEdges(modus_components, <<>>)

\* a node the reconstructor lays out by heuristic inference: no layoutMode of
\* auto layout, no inferredAutoLayout, at least one valid child
IsHeuristic(figma_node) ==
  /\ SelectSeq(Get(figma_node, "children", <<>>), IsDict) # <<>>
  /\ Get(figma_node, "layoutMode", PyNoneStr) \notin {"HORIZONTAL", "VERTICAL", "GRID"}
  /\ Get(figma_node, "inferredAutoLayout", EmptyDict) = EmptyDict

HeuristicNodes ==
  {ln \in Range(_get_all_nodes(layout_tree[1])) : IsHeuristic(ln.original_node)}

BoxX(ln) == Get(Get(ln.original_node, "absoluteBoundingBox", EmptyDict), "x", 0)

BoxY(ln) == Get(Get(ln.original_node, "absoluteBoundingBox", EmptyDict), "y", 0)

\* the rows a laid out node shows: its children when it is one row, and per
\* child the members of the row group or the child itself otherwise
TreeRows(ln) ==
  IF ln.layout_type = "HORIZONTAL" THEN << ln.children >>
  ELSE [r \in 1..Len(ln.children) |->
          IF ln.children[r].layout_type = "ROW_GROUP" THEN ln.children[r].children
          ELSE << ln.children[r] >>]

RowYs(row) == {BoxY(row[i]) : i \in 1..Len(row)}

\* the y of the first member of the row in (y, x) order
AnchorY(row) == CHOOSE y \in RowYs(row) : \A z \in RowYs(row) : y <= z

C8_RowsBecomeChildren ==
  layout_tree # <<>> =>
    \A ln \in HeuristicNodes :
      LET figma_node == ln.original_node
          kids == SelectSeq(figma_node.children, IsDict)
          rows == RowsOf(sorted(kids, [i \in 1..Len(kids) |-> sort_key(kids[i])]))
          Originals(nodes) == {nodes[i].original_node : i \in 1..Len(nodes)}
      IN IF Len(rows) = 1
         THEN /\ ln.layout_type = "HORIZONTAL"
              /\ Len(ln.children) = Len(rows[1])
              /\ Originals(ln.children) = Range(rows[1])
         ELSE /\ ln.layout_type = "VERTICAL"
              /\ Len(ln.children) = Len(rows)
              /\ \A r \in 1..Len(rows) :
                   IF Len(rows[r]) = 1
                   THEN /\ ln.children[r].original_node = rows[r][1]
                        /\ ln.children[r].id = rows[r][1].id
                        /\ ln.children[r].layout_type # "ROW_GROUP"
                   ELSE /\ ln.children[r].id = figma_node.id \o "-row-" \o ToString(r - 1)
                        /\ ln.children[r].type = "GROUP"
                        /\ ln.children[r].layout_type = "ROW_GROUP"
                        /\ ln.children[r].metadata
                             = [inferred |-> TRUE, item_count |-> Len(rows[r])]
                        /\ Len(ln.children[r].children) = Len(rows[r])
                        /\ Originals(ln.children[r].children) = Range(rows[r])

\* a VERTICAL root whose first row is passed through and whose second row is
\* a row group of two
C8_Witness ==
  /\ pc = "done" /\ layout_tree # <<>>
  /\ IsHeuristic(layout_tree[1].original_node)
  /\ layout_tree[1].layout_type = "VERTICAL"
  /\ Len(layout_tree[1].children) = 2
  /\ layout_tree[1].children[1].layout_type = "ABSOLUTE"
  /\ layout_tree[1].children[2].id = "r-row-1"
  /\ layout_tree[1].children[2].metadata = [inferred |-> TRUE, item_count |-> 2]

\* C9: the children of every HORIZONTAL node inferred by the heuristic and of
\* every synthetic ROW_GROUP node are in non-decreasing order of bounding-box
\* x, also when the (y, x) sort had put them in another x order.
C9_RowChildrenInXOrder ==
  layout_tree # <<>> =>
    \A ln \in Range(_get_all_nodes(layout_tree[1])) :
      (\/ ln.layout_type = "ROW_GROUP"
       \/ ln.layout_type = "HORIZONTAL" /\ IsHeuristic(ln.original_node)) =>
        \A i \in 1..(Len(ln.children) - 1) : BoxX(ln.children[i]) <= BoxX(ln.children[i + 1])

\* a row group whose members the (y, x) sort had put in decreasing x order
C9_Witness ==
  /\ pc = "done" /\ layout_tree # <<>>
  /\ \E ln \in Range(_get_all_nodes(layout_tree[1])) :
       /\ ln.layout_type = "ROW_GROUP"
       /\ \E i \in 1..(Len(ln.children) - 1) :
            /\ BoxY(ln.children[i]) > BoxY(ln.children[i + 1])
            /\ BoxX(ln.children[i]) < BoxX(ln.children[i + 1])

\* C10: the compact summary lists exactly the nodes the mapper classified:
\* total_components is the number of components of the forest, nested ones
\* included, and under each depth are the classified nodes of that depth of
\* the layout tree, by name.
C10_CompactListsClassified ==
  (pc = "done" /\ layout_tree # <<>>) =>
    LET tree == layout_tree[1]
        cps == ClassifiedPaths(tree)
        hierarchy == compact_summary.component_hierarchy
    IN /\ compact_summary.total_components = ForestSize(modus_components)
       /\ DOMAIN hierarchy = {Len(p) : p \in cps}
       /\ \A d \in DOMAIN hierarchy :
            /\ Len(hierarchy[d]) = Cardinality({p \in cps : Len(p) = d})
            /\ {hierarchy[d][i].name : i \in 1..Len(hierarchy[d])}
                 = {NodeAt(tree, p).name : p \in {q \in cps : Len(q) = d}}

\* the entries of a children list that stand for nodes, and the sentinels
ConciseNodes(info) == SelectSeq(Get(info, "children", <<>>), LAMBDA e : Has(e, "id"))

ConciseSentinels(info) == SelectSeq(Get(info, "children", <<>>), LAMBDA e : Has(e, "count"))

\* node_info was emitted for layout node ln at depth: when fewer entries were
\* emitted than ln has children that build_concise_node emits at depth + 1,
\* the children list holds a TRUNCATED or REPEATED_PATTERN entry whose count
\* is a number of children of ln; and so on for the emitted children
RECURSIVE SentinelsBelow(_, _, _, _, _)
SentinelsBelow(info, ln, depth, seen_patterns, comp_map) ==
  LET seen_next == Append(seen_patterns, ln.type \o ":" \o ln.name)
      emitted == ConciseNodes(info)
      emittable == {i \in 1..Len(ln.children) :
                      build_concise_node(ln.children[i], depth + 1, seen_next, comp_map) # <<>>}
  IN /\ Cardinality(emittable) > Len(emitted) =>
          \E j \in 1..Len(ConciseSentinels(info)) :
            /\ ConciseSentinels(info)[j].type \in {"TRUNCATED", "REPEATED_PATTERN"}
            /\ ConciseSentinels(info)[j].count \in 1..Len(ln.children)
     /\ \A j \in 1..Len(emitted) :
          \A i \in 1..Len(ln.children) :
            ln.children[i].id = emitted[j].id =>
              SentinelsBelow(emitted[j], ln.children[i], depth + 1, seen_next, comp_map)

\* C11: in the layout_structure of analyze_for_llm, a node that has more
\* children in the layout tree than entries emitted for it, the rest being
\* left out by a limit on the number of children, has a sentinel entry
\* (TRUNCATED or REPEATED_PATTERN) in its children list that counts them.
C11_ChildLimitHasSentinel ==
  (pc = "done" /\ Has(result, "layout_structure")) =>
    SentinelsBelow(result.layout_structure, layout_tree[1], 0, <<>>,
                   ConciseCompMap(modus_components))

\* summary (<<>> for None) holds layout node ln, met at depth, and every
\* layout node below it down to depth 2
RECURSIVE KeepsLevels(_, _, _)
KeepsLevels(summary, ln, depth) ==
  /\ summary # <<>>
  /\ summary[1].name = ln.name
  /\ summary[1].layout = ln.layout_type
  /\ depth < ALWAYS_SHOWN_DEPTH - 1 =>
       LET KidsKept(kids) ==
             /\ Len(kids) = Len(ln.children)
             /\ \A i \in 1..Len(kids) : KeepsLevels(<< kids[i] >>, ln.children[i], depth + 1)
       IN KidsKept(Get(summary[1], "children", <<>>))

\* C12: the hierarchical summary of create_llm_summary (max_depth 5) holds
\* every layout node of depth 0, 1 and 2, whatever its type, number of
\* children or classification; the summary of the root is never null.
C12_FirstThreeLevelsKept ==
  (pc = "done" /\ layout_tree # <<>>) => KeepsLevels(llm_summary, layout_tree[1], 0)

\* C13: a call of analyze_with_layout_reconstruction returns what every
\* earlier call on the same analyzer returned for the same raw input, the
\* layout and mapping counters and the list of undetected nodes included.
C13_NoStateBetweenCalls ==
  pc = "done" =>
    \A i \in 1..Len(earlier_calls) :
      (earlier_calls[i].returned /\ earlier_calls[i].raw = raw) =>
        earlier_calls[i].result = result

\* the input is not a usable node: it is no mapping, or a mapping (the empty
\* one included) of which the filter keeps nothing
Unusable(node) == ~IsDict(node) \/ filter_figma_data(node, NoDepth) = EmptyDict

\* C14: for an input that is not a usable node analyze_with_layout_reconstruction
\* does not raise and returns a result with an 'error' field, an empty list of
\* components and no layout tree; for a usable node the result it returns
\* has no 'error' field.
C14_UnusableInputReported ==
  /\ pc = "raised" => ~Unusable(raw)
  /\ pc = "done" =>
       IF Unusable(raw)
       THEN /\ Has(result, "error")
            /\ result.components = <<>>
            /\ result.layout_tree = <<>>
            /\ DOMAIN result = {"error", "components", "layout_tree"}
       ELSE ~Has(result, "error")

\* an input that is no mapping was reported
C14_Witness == pc = "done" /\ ~IsDict(raw) /\ Truthy(raw) /\ Has(result, "error")

\* C15: filter_figma_data never raises, whether its input is no mapping or a
\* mapping with malformed attributes or children; called with an input that
\* is no mapping (None, a list, a string, a number, empty or not) it returns
\* the empty mapping and prints a warning.
C15_FilterNeverRaises ==
  /\ pc # "raised"
  /\ (pc = "filtered" /\ ~IsDict(raw)) => (filtered = EmptyDict /\ filter_warnings # <<>>)


\* ---------------------------------------------------------------------------
\* C16: the depth budget of filter_figma_data

\* the children of the input that are mappings and are not marked invisible
VisibleKids(node) ==
  IF Has(node, "children")
  THEN SelectSeq(node.children, LAMBDA c : IsDict(c) /\ Get(c, "visible", TRUE))
  ELSE <<>>

\* levels of the filtered tree below its root
RECURSIVE LevelsBelow(_)
LevelsBelow(out) ==
  LET kids == Get(out, "children", <<>>)
      RECURSIVE Deepest(_)
      Deepest(i) == IF i > Len(kids) THEN 0
                    ELSE Max2(1 + LevelsBelow(kids[i]), Deepest(i + 1))
  IN Deepest(1)

\* out keeps, level by level and in order, every visible mapping child of node
RECURSIVE RetainsAll(_, _)
RetainsAll(node, out) ==
  LET vis == VisibleKids(node)
      kids == Get(out, "children", <<>>)
  IN /\ Len(kids) = Len(vis)
     /\ \A i \in 1..Len(kids) :
          /\ Get(kids[i], "id", "") = Get(vis[i], "id", "")
          /\ RetainsAll(vis[i], kids[i])

\* out keeps, level by level and in order, the visible mapping children of node
\* of which the filter keeps something, as long as the budget lasts
RECURSIVE RetainsKept(_, _, _)
RetainsKept(node, out, budget) ==
  LET all == IF budget = 0 THEN <<>> ELSE VisibleKids(node)
      vis == SelectSeq(all, LAMBDA c : filter_figma_data(c, next_budget(budget)) # EmptyDict)
      kids == Get(out, "children", <<>>)
  IN /\ Len(kids) = Len(vis)
     /\ \A i \in 1..Len(kids) :
          /\ Get(kids[i], "id", "") = Get(vis[i], "id", "")
          /\ RetainsKept(vis[i], kids[i], next_budget(budget))

\* C16 (as stated): with an integer budget d no node of the returned tree lies
\* more than d levels below the root, budget 0 giving a node without children;
\* with budget None every visible mapping descendant of the input is retained
\* at its original depth.
C16_DepthBudget ==
  (pc = "filtered" /\ IsDict(raw)) =>
    IF max_depth = NoDepth THEN RetainsAll(raw, filtered)
    ELSE /\ LevelsBelow(filtered) <= max_depth
         /\ max_depth = 0 => ~Has(filtered, "children")

\* C16 (amended): with an integer budget d no node of the returned tree lies
\* more than d levels below the root, budget 0 giving a node without children;
\* at every level the budget allows, and at every level with budget None, the
\* children kept are, in order, the visible mapping children of which the
\* filter keeps something.
C16_DepthBudgetOfKept ==
  (pc = "filtered" /\ IsDict(raw)) =>
    /\ RetainsKept(raw, filtered, max_depth)
    /\ max_depth # NoDepth =>
         /\ LevelsBelow(filtered) <= max_depth
         /\ max_depth = 0 => ~Has(filtered, "children")

\* a tree cut at the budget: the input is deeper than the budget, the output
\* reaches it exactly
C16_Witness ==
  /\ pc = "filtered"
  /\ IsDict(raw)
  /\ max_depth # NoDepth
  /\ max_depth > 0
  /\ LevelsBelow(filtered) = max_depth
  /\ LevelsBelow(raw) > max_depth

\* a visible mapping child of which nothing is kept is missing from the output
C16_ChildDropped ==
  /\ pc = "filtered"
  /\ IsDict(raw)
  /\ max_depth = NoDepth
  /\ filtered # EmptyDict
  /\ Len(Get(filtered, "children", <<>>)) < Len(VisibleKids(raw))


\* ---------------------------------------------------------------------------
\* C17: what a children sequence of the filtered tree holds

\* every node of the output below the root is a non-empty mapping without a
\* denylisted key and without visible = false
RECURSIVE CleanBelow(_)
CleanBelow(out) ==
  LET kids == Get(out, "children", <<>>)
  IN \A i \in 1..Len(kids) :
       /\ IsDict(kids[i])
       /\ kids[i] # EmptyDict
       /\ DOMAIN kids[i] \cap remove_properties = {}
       /\ Get(kids[i], "visible", TRUE)
       /\ CleanBelow(kids[i])

\* at every depth the children of out are, in order, the non-empty outputs of
\* the filter for the visible mapping children of node
RECURSIVE ChildrenAreFiltered(_, _, _)
ChildrenAreFiltered(node, out, budget) ==
  LET all == IF budget = 0 THEN <<>> ELSE VisibleKids(node)
      vis == SelectSeq(all, LAMBDA c : filter_figma_data(c, next_budget(budget)) # EmptyDict)
      kids == Get(out, "children", <<>>)
  IN /\ Has(out, "children") => kids # <<>>
     /\ Len(kids) = Len(vis)
     /\ \A i \in 1..Len(kids) :
          /\ kids[i] = filter_figma_data(vis[i], next_budget(budget))
          /\ ChildrenAreFiltered(vis[i], kids[i], next_budget(budget))

\* C17: in every tree filter_figma_data returns, at every depth, each element
\* of a children sequence is a non-empty mapping that is the filter's output
\* for a visible mapping child of the input, in the input's order; no invisible
\* child, no non-mapping entry and no unfiltered child appears.
C17_ChildrenAreFilteredVisibleMappings ==
  (pc = "filtered" /\ IsDict(raw)) =>
    /\ CleanBelow(filtered)
    /\ ChildrenAreFiltered(raw, filtered, max_depth)

\* a returned tree with children whose input had an invisible child or an
\* entry that is no mapping
C17_Witness ==
  /\ pc = "filtered"
  /\ IsDict(raw)
  /\ Has(filtered, "children")
  /\ Has(raw, "children")
  /\ \E i \in 1..Len(raw.children) :
       IF IsDict(raw.children[i]) THEN ~Get(raw.children[i], "visible", TRUE) ELSE TRUE


\* ---------------------------------------------------------------------------
\* C18: the mapper run a second time on the same layout tree

\* the components of a forest, children included, in pre-order
RECURSIVE ForestList(_)
ForestList(forest) ==
  Flatten([i \in 1..Len(forest) |->
             << forest[i] >> \o ForestList(forest[i].children)])

\* no layout node has more components in the forest than there are layout
\* nodes of its id
ClassifiedOnce(forest, tree) ==
  LET comps == ForestList(forest)
      nodes == Preorder(tree)
  IN \A i \in 1..Len(comps) :
       Cardinality({j \in 1..Len(comps) :
                      comps[j].original_node_id = comps[i].original_node_id})
         <= Cardinality({j \in 1..Len(nodes) : nodes[j].id = comps[i].original_node_id})

ComponentsFor(id) ==
  SelectSeq(ForestList(modus_components), LAMBDA c : c.original_node_id = id)

\* the node with this id is classified once, as component_type
ClassifiedAs(id, component_type) ==
  /\ Len(ComponentsFor(id)) = 1
  /\ ComponentsFor(id)[1].component_type = component_type

\* the rows of the root: a ROW_GROUP child is a row of several items, any
\* other child a row of one
SingleItemRows(root) ==
  Cardinality({i \in 1..Len(root.children) : root.children[i].layout_type # "ROW_GROUP"})

LoginMapped == raw \in LoginInputs /\ pc \in {"summarize", "done"}

\* C19 (as stated): the two stroked frames are text-input, the filled rounded
\* frame is button, the root is VERTICAL with 3 rows, two of them single-item,
\* and one node is classified via naming.
C19_LoginForm ==
  LoginMapped =>
    /\ ClassifiedAs("i1", "modus-wc-text-input")
    /\ ClassifiedAs("i2", "modus-wc-text-input")
    /\ ClassifiedAs("b", "modus-wc-button")
    /\ layout_tree[1].layout_type = "VERTICAL"
    /\ layout_tree[1].metadata.row_count = 3
    /\ SingleItemRows(layout_tree[1]) = 2
    /\ Cardinality({i \in 1..Len(ForestList(modus_components)) :
                      ForestList(modus_components)[i].detection_method = "naming"}) = 1

\* C19 (amended): the two stroked frames are text-input and the filled rounded
\* frame is button, each by structure with confidence 0.8 and at the top level
\* of the forest, no other node being classified; the root is VERTICAL with
\* row groups: 5 single-item rows when the children are stacked, 3 rows (two
\* of two items, one single-item) when each label shares the row of its frame.
C19_LoginFormByStructure ==
  LoginMapped =>
    /\ ClassifiedAs("i1", "modus-wc-text-input")
    /\ ClassifiedAs("i2", "modus-wc-text-input")
    /\ ClassifiedAs("b", "modus-wc-button")
    /\ Len(modus_components) = 3
    /\ \A i \in 1..3 :
         /\ modus_components[i].detection_method = "structure"
         /\ modus_components[i].confidence = 80
         /\ modus_components[i].children = <<>>
    /\ layout_tree[1].layout_type = "VERTICAL"
    /\ layout_tree[1].metadata.has_row_groups
    /\ IF raw = LoginForm(LoginStacked)
       THEN /\ layout_tree[1].metadata.row_count = 5
            /\ SingleItemRows(layout_tree[1]) = 5
       ELSE /\ layout_tree[1].metadata.row_count = 3
            /\ SingleItemRows(layout_tree[1]) = 1

\* the Login Form has gone through the filter, the reconstruction and the mapper
C19_Witness ==
  /\ LoginMapped
  /\ pc = "done"
  /\ raw = LoginForm(LoginBeside)
  /\ Len(modus_components) = 3


\* ---------------------------------------------------------------------------
\* C20: the layout kinds of a reconstructed tree

LayoutKinds == {"ABSOLUTE", "HORIZONTAL", "VERTICAL", "GRID", "ROW_GROUP"}

\* C20: every node of every tree reconstruct_layout returns has a layout_type
\* among ABSOLUTE, HORIZONTAL, VERTICAL, GRID and ROW_GROUP, also when a node
\* carries an inferredAutoLayout hint, whatever its layoutMode.
C20_LayoutTypeIsALayoutKind ==
  layout_tree # <<>> =>
    \A i \in 1..Len(Preorder(layout_tree[1])) :
      Preorder(layout_tree[1])[i].layout_type \in LayoutKinds


\* ---------------------------------------------------------------------------
\* C21: the component kinds the mapper returns

\* C21: the component kind of every Mapped Component the mapper returns is in
\* the catalog of component kinds, for every node name, names with the
\* modus-wc- convention included.
C21_KindInCatalog ==
  \A i \in 1..Len(ForestList(modus_components)) :
    ForestList(modus_components)[i].component_type \in ComponentCatalog

\* ---------------------------------------------------------------------------
\* C22: the order of the naming table

\* names that match two rules, one through a longer phrase that holds the
\* word the other matches, with the kind of the rule of the longer phrase
SpecificKind ==
  [n \in {"Side Navigation Bar", "Radio Button", "Number Input", "Text Area"} |->
     CASE n = "Side Navigation Bar" -> "modus-wc-side-navigation"
       [] n = "Radio Button" -> "modus-wc-radio"
       [] n = "Number Input" -> "modus-wc-number-input"
       [] n = "Text Area" -> "modus-wc-textarea"]

\* C22: the naming table is tried in its declared order, the first match
\* winning, and the order is specific before general: a name that matches a
\* rule through a longer phrase (side navigation, radio button, number input,
\* text area) gets the kind of that rule.
C22_SpecificBeforeGeneral ==
  (pc = "done" /\ IsDict(raw) /\ Get(raw, "name", "") \in DOMAIN SpecificKind) =>
    /\ Len(modus_components) = 1
    /\ modus_components[1].detection_method = "naming"
    /\ modus_components[1].component_type = SpecificKind[raw.name]


\* ---------------------------------------------------------------------------
\* C23: the anchor of a row

\* the children of the root are at y = 0, 4 and 8, one each
DriftingRoot ==
  /\ layout_tree # <<>>
  /\ IsHeuristic(layout_tree[1].original_node)
  /\ LET valid == SelectSeq(Get(layout_tree[1].original_node, "children", <<>>), IsDict)
     IN /\ Len(valid) = 3
        /\ {Get(Get(valid[i], "absoluteBoundingBox", EmptyDict), "y", 0) : i \in 1..3}
             = {0, 4, 8}

NoValidChild(figma_node) == SelectSeq(Get(figma_node, "children", <<>>), IsDict) = <<>>

\* C24: a node that has no valid child once the children that are no mappings
\* are dropped is returned as a leaf with layout_type ABSOLUTE, whatever
\* layoutMode or inferredAutoLayout it declares.
C24_NoValidChildIsAbsoluteLeaf ==
  layout_tree # <<>> =>
    \A ln \in Range(Preorder(layout_tree[1])) :
      (ln.layout_type # "ROW_GROUP" /\ NoValidChild(ln.original_node)) =>
        (ln.children = <<>> /\ ln.layout_type = "ABSOLUTE")


\* ---------------------------------------------------------------------------
\* C25: what the hierarchical summary prunes

\* <<name, component kind>> of the classified layout nodes at depth or below,
\* down to the last depth create_llm_summary visits
RECURSIVE ClassifiedWithin(_, _)
ClassifiedWithin(ln, depth) ==
  IF depth >= DEFAULT_MAX_DEPTH THEN {}
  ELSE (IF ln.id \in DOMAIN component_map
        THEN {<< ln.name, component_map[ln.id].component_type >>} ELSE {})
       \cup UNION {ClassifiedWithin(ln.children[i], depth + 1) : i \in 1..Len(ln.children)}

\* <<name, component>> of the entries of a summary
RECURSIVE SummaryPairs(_)
SummaryPairs(summary) ==
  {<< summary.name, summary.component >>}
  \cup UNION {SummaryPairs(summary.children[i]) :
                i \in 1..Len(Get(summary, "children", <<>>))}

\* C25: create_llm_summary prunes an unclassified VECTOR or GROUP node only
\* when it has more than 5 children and no classified descendant at any depth;
\* every classified node within the depth cap is in the hierarchical summary.
C25_ClassifiedNodesKept ==
  (pc = "done" /\ layout_tree # <<>>) =>
    ClassifiedWithin(layout_tree[1], 0)
      \subseteq (IF llm_summary = <<>> THEN {} ELSE SummaryPairs(llm_summary[1]))


\* ---------------------------------------------------------------------------
\* C26: property extraction for a text input

\* the variant state of an INSTANCE node is 'disabled', in any case of letters
StateDisabled(ln) ==
  /\ ln.type = "INSTANCE"
  /\ Has(ln.original_node, "variantProperties")
  /\ Lower(Get(ln.original_node.variantProperties, "state", "")) = "disabled"

\* C26: _extract_properties returns a property mapping for every node
\* classified as text-input, and disabled = true when the variant state of an
\* INSTANCE node is 'disabled', also when the node has a TEXT child with
\* characters whose name does not contain 'placeholder'.
C26_TextInputPropertiesNeverFail ==
  (layout_tree # <<>> /\ pc \in {"summarize", "done", "raised"}) =>
    \A ln \in Range(Preorder(layout_tree[1])) :
      LET Extracted(found) ==
            (found # <<>> /\ found[1] = "modus-wc-text-input") =>
              LET Returned(ep) ==
                    /\ ~ep.raised
                    /\ StateDisabled(ln) => Get(ep.props, "disabled", FALSE)
              IN Returned(_extract_properties(ln, found[1]))
      IN Extracted(first_match(_detect_by_name(ln.name), _detect_by_structure(ln),
                               _detect_by_style(ln)))


\* ---------------------------------------------------------------------------
\* C27: a grid of at least two rows and two columns

\* the children of the raw node lie on at least two x and at least two y
TwoByTwo(figma_node) ==
  LET kids == SelectSeq(Get(figma_node, "children", <<>>), IsDict)
      At(k) == {Get(Get(kids[i], "absoluteBoundingBox", EmptyDict), k, 0) : i \in 1..Len(kids)}
  IN Cardinality(At("x")) >= 2 /\ Cardinality(At("y")) >= 2

\* a root reconstructed with explicit GRID layout that no naming rule and no
\* structural predicate tried before the table predicate matches
PlainGridRoot ==
  /\ layout_tree # <<>>
  /\ layout_tree[1].layout_type = "GRID"
  /\ Get(layout_tree[1].metadata, "auto_layout", FALSE)
  /\ TwoByTwo(layout_tree[1].original_node)
  /\ _detect_by_name(layout_tree[1].name) = <<>>
  /\ ~_is_button_structure(layout_tree[1])
  /\ ~_is_input_structure(layout_tree[1])
  /\ ~_is_card_structure(layout_tree[1])
  /\ ~_is_navbar_structure(layout_tree[1])

\* C27: a node with explicit GRID layout whose children occupy at least 2 rows
\* and 2 columns, matched by no naming rule and no earlier structural
\* predicate, is classified as table by the structure tier, confidence 0.80.
C27_GridIsTable ==
  (PlainGridRoot /\ pc \in {"summarize", "done"}) =>
    /\ modus_components # <<>>
    /\ modus_components[1].original_node_id = layout_tree[1].id
    /\ modus_components[1].component_type = "modus-wc-table"
    /\ modus_components[1].detection_method = "structure"
    /\ modus_components[1].confidence = 80


\* ---------------------------------------------------------------------------
\* C28: the style tier

\* the bounding box is square or near-square (sides one apart at most) with
\* sides between 10 and 50, on a node of a type the style tier looks at
IconShape(ln) ==
  LET width == Get(Bounds(ln), "width", 0)
      height == Get(Bounds(ln), "height", 0)
  IN /\ ln.type \in {"RECTANGLE", "FRAME"}
     /\ Abs(width - height) <= 1
     /\ 10 <= width /\ width <= 50
     /\ 10 <= height /\ height <= 50

\* a rectangle with one dimension <= 2 and the other > 100
DividerShape(ln) ==
  LET width == Get(Bounds(ln), "width", 0)
      height == Get(Bounds(ln), "height", 0)
  IN /\ ln.type = "RECTANGLE"
     /\ \/ (width > 100 /\ height <= 2)
        \/ (height > 100 /\ width <= 2)

\* the outcome of _identify_component is component_type by the style tier
ByStyle(outcome, component_type) ==
  /\ outcome.kind = "component"
  /\ outcome.comp.component_type = component_type
  /\ outcome.comp.detection_method = "style"
  /\ outcome.comp.confidence = 70

\* C28: a node that matches neither the naming nor the structure tier is
\* classified icon when its bounding box is square or near-square with sides
\* between 10 and 50, divider when it is a rectangle with one dimension <= 2
\* and the other > 100, both by style with confidence 0.70, and is
\* unclassified otherwise.
C28_StyleTier ==
  (layout_tree # <<>> /\ pc \in {"summarize", "done"}) =>
    \A ln \in Range(Preorder(layout_tree[1])) :
      (_detect_by_name(ln.name) = <<>> /\ _detect_by_structure(ln) = <<>>) =>
        LET Told(outcome) ==
              IF IconShape(ln) THEN ByStyle(outcome, "modus-wc-icon")
              ELSE IF DividerShape(ln) THEN ByStyle(outcome, "modus-wc-divider")
              ELSE outcome.kind = "none"
        IN Told(_identify_component(ln))


\* ---------------------------------------------------------------------------
\* C29: the list of undetected nodes

\* the layout nodes _identify_component leaves unclassified, in pre-order
Misses(tree) ==
  SelectSeq(Preorder(tree), LAMBDA ln : _identify_component(ln).kind = "none")

\* the run of the mapper on layout_tree has returned
MapperReturned == layout_tree # <<>> /\ pc \in {"summarize", "done"}

\* C29: the list of undetected nodes holds at most 1000 entries, the first
\* 1000 unclassified nodes in pre-order; its length is min(undetected, 1000);
\* every entry has a reason; the nodes below an unclassified node are visited
\* and attached to the same parent, whether or not the node was recorded.
C29_UndetectedListBounded ==
  /\ Len(undetected_nodes) <= UNDETECTED_LIMIT
  /\ Len(undetected_nodes) = (IF mapping_stats.undetected < UNDETECTED_LIMIT
                              THEN mapping_stats.undetected ELSE UNDETECTED_LIMIT)
  /\ \A i \in 1..Len(undetected_nodes) : undetected_nodes[i].possible_reasons # <<>>
  /\ MapperReturned =>
       LET Walked(misses, nodes) ==
             LET before == mapping_stats.undetected - Len(misses)
             IN /\ \A j \in 1..Len(misses) :
                     before + j <= UNDETECTED_LIMIT =>
                       undetected_nodes[before + j] = UndetectedEntry(misses[j])
                /\ mapping_stats.total_components = before + Len(nodes)
                /\ ForestSize(modus_components) = Len(nodes) - Len(misses)
       IN Walked(Misses(layout_tree[1]), Preorder(layout_tree[1]))

\* a run that reached the limit: some of its unclassified nodes were recorded,
\* others were not, and a classified node lies below an unclassified one
C29_Witness ==
  /\ MapperReturned
  /\ pc = "done"
  /\ Len(undetected_nodes) = UNDETECTED_LIMIT
  /\ mapping_stats.undetected > UNDETECTED_LIMIT
  /\ mapping_stats.undetected - Len(Misses(layout_tree[1])) < UNDETECTED_LIMIT

\* past the limit a classified node below an unclassified one is still mapped
C29_WalkedPastLimit ==
  /\ MapperReturned
  /\ mapping_stats.undetected - Len(Misses(layout_tree[1])) >= UNDETECTED_LIMIT
  /\ Misses(layout_tree[1]) # <<>>
  /\ modus_components # <<>>


\* ---------------------------------------------------------------------------
\* C30: reconstruction neither loses nor duplicates nodes

\* the nodes of a tree of mappings, parents before children
RECURSIVE RawPreorder(_)
RawPreorder(node) ==
  << node >> \o Flatten([i \in 1..Len(Get(node, "children", <<>>)) |->
                           RawPreorder(node.children[i])])

\* the synthetic node of lines 189-198
IsRowGroup(ln) == ln.layout_type = "ROW_GROUP"

\* original_node of the layout nodes that are not row groups
Originals(tree) ==
  LET real == SelectSeq(Preorder(tree), LAMBDA ln : ~IsRowGroup(ln))
  IN [i \in 1..Len(real) |-> real[i].original_node]

\* how often x occurs in the sequence
Occurrences(seq, x) == Cardinality({i \in 1..Len(seq) : seq[i] = x})

\* reconstruct_layout has returned a tree for a filtered tree of mappings
Reconstructed ==
  /\ pc \in {"map", "summarize", "done"}
  /\ layout_tree # <<>>
  /\ IsDict(filtered)
  /\ OnlyMappings(filtered)

\* C30: every node of a filtered tree of mappings is the original_node of
\* exactly one layout node that is not a row group, and total_nodes has grown
\* by the number of nodes of the filtered tree.
C30_NoNodeLostOrDuplicated ==
  Reconstructed =>
    LET Same(nodes, originals) ==
          /\ Len(originals) = Len(nodes)
          /\ \A i \in 1..Len(nodes) : Occurrences(originals, nodes[i]) = Occurrences(nodes, nodes[i])
          /\ layout_stats.total_nodes = Len(nodes)
    IN Same(RawPreorder(filtered), Originals(layout_tree[1]))

\* a tree with a row group of the heuristic branch
C30_Witness ==
  /\ Reconstructed
  /\ \E i \in 1..Len(Preorder(layout_tree[1])) : IsRowGroup(Preorder(layout_tree[1])[i])
  /\ layout_stats.total_nodes >= 4

\* a tree with a node in the explicit branch
C30_ExplicitBranch ==
  /\ Reconstructed
  /\ layout_stats.auto_layout_nodes > 0
  /\ layout_stats.total_nodes >= 3

\* a tree with a node in the inferred branch
C30_InferredBranch ==
  /\ Reconstructed
  /\ layout_stats.inferred_layout_nodes > 0
  /\ layout_stats.total_nodes >= 2

====
